---- MODULE Spec2Model ----
(***************************************************************************)
(* A model of the v2 agent runtime of zentinel-agent-go-sdk:               *)
(*   - the frame codec            (src/v2/protocol.go)                     *)
(*   - the session handler        (src/v2/handler.go)                      *)
(*   - the transport session pumps (src/v2/runner.go, gRPC bridge)         *)
(***************************************************************************)
EXTENDS Integers, Sequences, FiniteSets, TLC

(***************************************************************************)
(* Program constants.                                                      *)
(***************************************************************************)
MaxMessageSizeV2 == 16777216

MsgTypeHandshakeRequest == 1

MsgTypeHandshakeResponse == 2

MsgTypeRequestHeaders == 16

MsgTypeRequestBodyChunk == 17

MsgTypeResponseHeaders == 18

MsgTypeResponseBodyChunk == 19

MsgTypeDecision == 32

MsgTypeCancelRequest == 48

MsgTypeCancelAll == 49

MsgTypePing == 240

MsgTypePong == 241

MsgTypeHealthRequest == 224

MsgTypeHealthResponse == 225

MsgTypeMetricsRequest == 226

MsgTypeMetricsResponse == 227

MsgTypeBodyMutation == 33

MsgTypeRegistration == 3

MsgTypeRegistrationAck == 4

ProtocolVersionV2 == 2

(***************************************************************************)
(* Bounds of the model.                                                    *)
(***************************************************************************)
\* explicit payloads of the codec runs have at most this many bytes
MaxSmall == 2

\* large payloads have lengths within this distance of the size cap
Slack == 2

\* a written frame is cut after at most this many bytes (or this many
\* bytes before its end)
MaxCut == 6

(***************************************************************************)
(* Byte strings.  A Go []byte is a sequence of runs <<b, n>> (byte b       *)
(* repeated n >= 1 times, adjacent runs of different bytes), so that a     *)
(* payload of 16 MiB is a value the model can hold.                        *)
(***************************************************************************)
RECURSIVE BLen(_)
BLen(s) == IF s = <<>> THEN 0 ELSE s[1][2] + BLen(Tail(s))

BCat(s, t) ==
    IF s = <<>> THEN t
    ELSE IF t = <<>> THEN s
    ELSE IF s[Len(s)][1] = t[1][1]
         THEN SubSeq(s, 1, Len(s) - 1)
                \o << <<t[1][1], s[Len(s)][2] + t[1][2]>> >> \o Tail(t)
         ELSE s \o t

RECURSIVE BTake(_, _)
BTake(s, n) ==
    IF n <= 0 \/ s = <<>> THEN <<>>
    ELSE IF s[1][2] <= n THEN <<s[1]>> \o BTake(Tail(s), n - s[1][2])
    ELSE << <<s[1][1], n>> >>

RECURSIVE BDrop(_, _)
BDrop(s, n) ==
    IF n <= 0 \/ s = <<>> THEN s
    ELSE IF s[1][2] <= n THEN BDrop(Tail(s), n - s[1][2])
    ELSE << <<s[1][1], s[1][2] - n>> >> \o Tail(s)

\* the byte string of an explicit sequence of bytes
RECURSIVE FromSeq(_)
FromSeq(q) == IF q = <<>> THEN <<>> ELSE BCat(<< <<q[1], 1>> >>, FromSeq(Tail(q)))

\* the i-th byte (1-based) of a byte string at least i bytes long
RECURSIVE ByteAt(_, _)
ByteAt(s, i) == IF i <= s[1][2] THEN s[1][1] ELSE ByteAt(Tail(s), i - s[1][2])

\* a []byte value that may be nil
NilBytes == [isNil |-> TRUE, bytes |-> <<>>]

Bytes(b) == [isNil |-> FALSE, bytes |-> b]

(***************************************************************************)
(* io.ReadFull(r, buf) with len(buf) = n >= 1 on a reader that holds the   *)
(* bytes r and then ends: io.EOF when no byte was read,                    *)
(* io.ErrUnexpectedEOF when some but not all were.                         *)
(***************************************************************************)
ReadFull(r, n) ==
    IF BLen(r) >= n THEN [data |-> BTake(r, n), rest |-> BDrop(r, n), err |-> "nil"]
    ELSE IF BLen(r) = 0 THEN [data |-> <<>>, rest |-> <<>>, err |-> "EOF"]
    ELSE [data |-> r, rest |-> <<>>, err |-> "ErrUnexpectedEOF"]

\* binary.BigEndian.Uint32 of a 4-byte string
BigEndianUint32(b) ==
    ByteAt(b, 1) * 16777216 + ByteAt(b, 2) * 65536 + ByteAt(b, 3) * 256 + ByteAt(b, 4)

\* binary.BigEndian.PutUint32 of uint32(n), for 0 <= n < 2^31 (the lengths
\* written are at most MaxMessageSizeV2, the forged ones below 2^31)
BigEndianPutUint32(n) ==
    FromSeq(<< (n \div 16777216) % 256, (n \div 65536) % 256,
               (n \div 256) % 256, n % 256 >>)

NoMsg == [isNil |-> TRUE, Type |-> 0, RequestID |-> 0, Payload |-> NilBytes]

V2Message(t, id, p) == [isNil |-> FALSE, Type |-> t, RequestID |-> id, Payload |-> p]

ReadResult(m, e, rest) == [msg |-> m, err |-> e, rest |-> rest]

\* a reader that returns a partial frame when the stream ends inside the payload
ReadMessageV2_NoTruncationError(r) ==
    LET h == ReadFull(r, 4) IN
    IF h.err # "nil" THEN ReadResult(NoMsg, "nil", <<>>)
    ELSE
    LET length == BigEndianUint32(h.data)
        t == ReadFull(h.rest, 1)
        p == ReadFull(t.rest, length - 1)
    IN  IF length > MaxMessageSizeV2 THEN ReadResult(NoMsg, "message size exceeds maximum", h.rest)
        ELSE IF length < 1 THEN ReadResult(NoMsg, "message length too small", h.rest)
        ELSE IF t.err # "nil" THEN ReadResult(NoMsg, "nil", <<>>)
        ELSE IF length - 1 > 0
             THEN ReadResult(V2Message(ByteAt(t.data, 1), 0, Bytes(p.data)), "nil", p.rest)
             ELSE ReadResult(V2Message(ByteAt(t.data, 1), 0, NilBytes), "nil", t.rest)

\* a reader without the size checks
ReadMessageV2_NoSizeCheck(r) ==
    LET h == ReadFull(r, 4) IN
    IF h.err = "EOF" THEN ReadResult(NoMsg, "nil", <<>>)
    ELSE IF h.err # "nil" THEN ReadResult(NoMsg, "failed to read message length", <<>>)
    ELSE
    LET length == BigEndianUint32(h.data)
        t == ReadFull(h.rest, 1)
        p == ReadFull(t.rest, length - 1)
    IN  IF t.err # "nil" THEN ReadResult(NoMsg, "failed to read message type", <<>>)
        ELSE IF length - 1 > 0
             THEN IF p.err # "nil"
                  THEN ReadResult(NoMsg, "failed to read message payload", <<>>)
                  ELSE ReadResult(V2Message(ByteAt(t.data, 1), 0, Bytes(p.data)), "nil", p.rest)
             ELSE ReadResult(V2Message(ByteAt(t.data, 1), 0, NilBytes), "nil", t.rest)

(***************************************************************************)
(* ReadMessageV2: [length:4][type:1][payload:length-1].  The result is     *)
(* the pair (msg, err) and what is left of the reader.                     *)
(***************************************************************************)
ReadMessageV2(r) ==
    LET h == ReadFull(r, 4) IN
    IF h.err = "EOF" THEN ReadResult(NoMsg, "nil", <<>>)
    ELSE IF h.err # "nil" THEN ReadResult(NoMsg, "failed to read message length", <<>>)
    ELSE
    LET length == BigEndianUint32(h.data)
        t == ReadFull(h.rest, 1)
        p == ReadFull(t.rest, length - 1)
    IN  IF length > MaxMessageSizeV2 THEN ReadResult(NoMsg, "message size exceeds maximum", h.rest)
        ELSE IF length < 1 THEN ReadResult(NoMsg, "message length too small", h.rest)
        ELSE IF t.err # "nil" THEN ReadResult(NoMsg, "failed to read message type", <<>>)
        ELSE IF length - 1 > 0
             THEN IF p.err # "nil"
                  THEN ReadResult(NoMsg, "failed to read message payload", <<>>)
                  ELSE ReadResult(V2Message(ByteAt(t.data, 1), 0, Bytes(p.data)), "nil", p.rest)
             ELSE ReadResult(V2Message(ByteAt(t.data, 1), 0, NilBytes), "nil", t.rest)

\* the two bytes "{}"
EmptyObject == FromSeq(<<123, 125>>)

WriteResult(e, out) == [err |-> e, out |-> out]

\* a writer that leaves the type byte out of the length
WriteMessageV2_LengthWithoutType(msg) ==
    LET payload == IF msg.Payload.isNil THEN EmptyObject ELSE msg.Payload.bytes
        totalLength == BLen(payload)
    IN  IF totalLength > MaxMessageSizeV2
        THEN WriteResult("message size exceeds maximum", <<>>)
        ELSE WriteResult("nil",
                 BCat(BCat(BigEndianPutUint32(totalLength),
                           FromSeq(<<msg.Type>>)), payload))

(***************************************************************************)
(* WriteMessageV2 on a writer that accepts every byte (a bytes.Buffer):    *)
(* the error and the bytes written.                                        *)
(***************************************************************************)
WriteMessageV2(msg) ==
    LET payload == IF msg.Payload.isNil THEN EmptyObject ELSE msg.Payload.bytes
        totalLength == 1 + BLen(payload)
    IN  IF totalLength > MaxMessageSizeV2
        THEN WriteResult("message size exceeds maximum", <<>>)
        ELSE WriteResult("nil",
                 BCat(BCat(BigEndianPutUint32(totalLength),
                           FromSeq(<<msg.Type>>)), payload))

(***************************************************************************)
(* Messages of the session model.  An inbound message is the parsed view   *)
(* of a frame: its type tag and what ParsePayload yields (parseOK is       *)
(* FALSE for a payload that is not valid JSON for the type).               *)
(***************************************************************************)
Ids == {1, 2}

\* the request ids the proxy uses in the runs of Spec
SpecIds == {1}

Sessions == {1, 2}

\* the sessions the proxy opens in the runs of Spec
SpecSessions == {1}

Transports == {"uds", "grpc", "reverse"}

\* chunk.Data strings: base64 of "a", base64 of "b", and no base64 at all
Datas == {"YQ==", "Yg==", "!"}

\* base64.StdEncoding.DecodeString on the strings of Datas
Base64Decode(d) ==
    CASE d = "YQ==" -> [ok |-> TRUE, bytes |-> <<97>>]
      [] d = "Yg==" -> [ok |-> TRUE, bytes |-> <<98>>]
      [] d = "" -> [ok |-> TRUE, bytes |-> <<>>]
      [] OTHER -> [ok |-> FALSE, bytes |-> <<>>]

\* AgentCapabilities, the flags naming the events the agent handles
AgentCapabilities(rh, rb, ph, pb) ==
    [HandlesRequestHeaders |-> rh, HandlesRequestBody |-> rb,
     HandlesResponseHeaders |-> ph, HandlesResponseBody |-> pb]

\* NewAgentCapabilities: request headers only
NewAgentCapabilities == AgentCapabilities(TRUE, FALSE, FALSE, FALSE)

\* the capabilities of the agents of SpecCapabilities: the default, and an
\* agent that declares the request body and the response headers only
CapabilitySets == {NewAgentCapabilities, AgentCapabilities(FALSE, TRUE, TRUE, FALSE)}

InMsg(t, id, ok, v, d, l) ==
    [Type |-> t, RequestID |-> id, parseOK |-> ok, ProtocolVersion |-> v,
     Data |-> d, IsLast |-> l, Timestamp |-> 0]

NoIn == InMsg(0, 0, TRUE, 0, "", FALSE)

\* the type tags HandleMessage and the runner know
KnownTypes ==
    {MsgTypeHandshakeRequest, MsgTypeHandshakeResponse, MsgTypeRegistration,
     MsgTypeRegistrationAck, MsgTypeRequestHeaders, MsgTypeRequestBodyChunk,
     MsgTypeResponseHeaders, MsgTypeResponseBodyChunk, MsgTypeDecision,
     MsgTypeBodyMutation, MsgTypeCancelRequest, MsgTypeCancelAll, MsgTypePing,
     MsgTypePong, MsgTypeHealthRequest, MsgTypeHealthResponse,
     MsgTypeMetricsRequest, MsgTypeMetricsResponse}

\* a type tag outside the table
UnknownType == CHOOSE t \in 1..255 : t \notin KnownTypes

\* the cases of the switch of HandleMessage
HandledTypes ==
    {MsgTypeHandshakeRequest, MsgTypeRequestHeaders, MsgTypeRequestBodyChunk,
     MsgTypeResponseHeaders, MsgTypeResponseBodyChunk, MsgTypeCancelRequest,
     MsgTypeCancelAll, MsgTypePing, MsgTypeHealthRequest, MsgTypeMetricsRequest}

HandshakeMsgs ==
    {InMsg(MsgTypeHandshakeRequest, 0, TRUE, v, "", FALSE) : v \in {1, 2}}
      \cup {InMsg(MsgTypeHandshakeRequest, 0, FALSE, 0, "", FALSE)}

RequestHeadersMsgs ==
    {InMsg(MsgTypeRequestHeaders, id, TRUE, 0, "", FALSE) : id \in Ids}
      \cup {InMsg(MsgTypeRequestHeaders, 0, FALSE, 0, "", FALSE)}

ChunkMsgs(t) ==
    {InMsg(t, id, TRUE, 0, d, l) : id \in Ids, d \in Datas, l \in BOOLEAN}
      \cup {InMsg(t, 0, FALSE, 0, "", FALSE)}

RequestBodyChunkMsgs == ChunkMsgs(MsgTypeRequestBodyChunk)

ResponseBodyChunkMsgs == ChunkMsgs(MsgTypeResponseBodyChunk)

ResponseHeadersMsgs ==
    {InMsg(MsgTypeResponseHeaders, id, TRUE, 0, "", FALSE) : id \in Ids}
      \cup {InMsg(MsgTypeResponseHeaders, 0, FALSE, 0, "", FALSE)}

CancelRequestMsgs ==
    {InMsg(MsgTypeCancelRequest, id, TRUE, 0, "", FALSE) : id \in Ids}
      \cup {InMsg(MsgTypeCancelRequest, 0, FALSE, 0, "", FALSE)}

\* the timestamps a proxy puts in its pings, and the agent's clock
Timestamps == {1, 2}

Nows == {3}

\* PingMessage, and a ping whose payload does not parse
PingMsgs ==
    {[InMsg(MsgTypePing, 0, TRUE, 0, "", FALSE) EXCEPT !.Timestamp = ts] :
        ts \in Timestamps}
      \cup {InMsg(MsgTypePing, 0, FALSE, 0, "", FALSE)}

OtherMsgs ==
    {InMsg(t, 0, TRUE, 0, "", FALSE) :
        t \in {MsgTypeCancelAll, MsgTypeHealthRequest, MsgTypeMetricsRequest,
               MsgTypePong, UnknownType}}

InMsgs ==
    HandshakeMsgs \cup RequestHeadersMsgs \cup RequestBodyChunkMsgs
      \cup ResponseHeadersMsgs \cup ResponseBodyChunkMsgs
      \cup CancelRequestMsgs \cup PingMsgs \cup OtherMsgs

\* an outbound message: its type tag and the fields of its payload the model keeps
Frame(t, id, d, acc, e) ==
    [Type |-> t, RequestID |-> id, Decision |-> d, Accepted |-> acc, Error |-> e,
     Timestamp |-> 0]

NoFrame == Frame(0, 0, "none", FALSE, "")

\* handlePing answering with its own clock whatever the ping carried
handlePing_OwnClock(m, now) ==
    [Frame(MsgTypePong, 0, "none", FALSE, "") EXCEPT !.Timestamp = now]

\* handlePing: the pong carries the timestamp of the ping, or the agent's
\* clock when the payload of the ping does not parse
handlePing(m, now) ==
    [Frame(MsgTypePong, 0, "none", FALSE, "") EXCEPT
        !.Timestamp = IF m.parseOK THEN m.Timestamp ELSE now]

\* the decision values a policy callback's Decision builds to
CallbackDecisions == {"allow", "block"}

buildDecisionMessage(requestID, decision) ==
    Frame(MsgTypeDecision, requestID, decision, FALSE, "")

buildAllowDecision(requestID) == Frame(MsgTypeDecision, requestID, "allow", FALSE, "")

buildAllowInsteadOfNeedsMore(requestID) == buildAllowDecision(requestID)

buildNeedsMoreDecision(requestID) ==
    Frame(MsgTypeDecision, requestID, "needs_more", FALSE, "")

IsDecision(f) == f.Type = MsgTypeDecision

IsTerminal(f) == IsDecision(f) /\ f.Decision # "needs_more"

IsBlock(f) == IsDecision(f) /\ f.Decision = "block"

\* handleHandshake: the HandshakeResponse for a HandshakeRequest
handleHandshake(msg) ==
    IF ~msg.parseOK
    THEN Frame(MsgTypeHandshakeResponse, 0, "none", FALSE, "failed to parse handshake")
    ELSE IF msg.ProtocolVersion # ProtocolVersionV2
    THEN Frame(MsgTypeHandshakeResponse, 0, "none", FALSE, "unsupported protocol version")
    ELSE Frame(MsgTypeHandshakeResponse, 0, "none", TRUE, "")

(***************************************************************************)
(* Go maps as functions on a subset of the keys.                           *)
(***************************************************************************)
EmptyMap == [k \in {} |-> 0]

Has(f, k) == k \in DOMAIN f

MapPut(f, k, v) == [x \in DOMAIN f \cup {k} |-> IF x = k THEN v ELSE f[x]]

MapDel(f, k) == [x \in DOMAIN f \ {k} |-> f[x]]

\* m[k] of a map of byte slices: nil (the empty slice under append) when absent
BodyOf(f, k) == IF Has(f, k) THEN f[k] ELSE <<>>

(***************************************************************************)
(* Bounds of the session model.                                            *)
(***************************************************************************)
\* the request and response buffers of the registry hold at most this many
\* bytes in total
MaxBytes == 2

(***************************************************************************)
(* State.                                                                  *)
(***************************************************************************)
VARIABLES
    \* AgentHandlerV2 (one per runner, shared by its sessions)
    requests,        \* map request id -> cached request
    requestBodies,   \* map request id -> accumulated request body
    responseBodies,  \* map request id -> accumulated response body
    responseEvents,  \* map request id -> cached response headers
    cancelFuncs,     \* map request id -> the session whose reqCtx it cancels
    ctxDone,         \* per session: the reqCtx of its OnRequest call is cancelled
    \* AgentRunnerV2 and its sessions
    transport,       \* config.Transport
    capabilities,    \* what the agent's Capabilities returns
    pc,              \* per session: where its goroutine stands
    cur,             \* per session: the message it is handling
    resp,            \* per session: what its handler produced, until it is written
    \* history
    first,           \* per session: kind of its first inbound frame
    rejected,        \* per session: a version reject was written to it
    termSeen,        \* per id: a terminal Decision was written since its RequestHeaders
    blockSeen,       \* per id: a Decision "block" was written since its RequestHeaders
    cancelRecv,      \* per id: "no", "recv" (CancelRequest received), "done" (handled)
    stage,           \* per id: progress of scenario S3 (0, 1 headers answered,
                     \*         2 one non-final chunk answered needs_more)
    expect,          \* per id: request chunks delivered in order since RequestHeaders
    rexpect,         \* per id: response chunks delivered in order since ResponseHeaders
    \* codec runs
    cpc,      \* "pick", "written", "cut", "forged", "read"
    cfrom,    \* where the bytes that were read came from
    cmsg,     \* the message handed to WriteMessageV2
    cwerr,    \* WriteMessageV2's error
    cwire,    \* the bytes the reader holds
    cres,     \* ReadMessageV2's result
    \* HealthStatus
    hsState,  \* HealthStatus.State ("none" before a constructor ran)
    hsChecks, \* the State of each element of HealthStatus.Checks, in order
    hsInit,   \* history: the State the constructor gave
    \* MetricsCollector
    requestsTotal,
    requestsActive,   \* uint32, as two 16-bit halves <<high, low>>
    requestsAllowed,
    requestsBlocked,
    requestsErrored,
    latencies,        \* the latency window
    samples,          \* history: every latency handed to RecordRequest, in order
    report,           \* the last MetricsReport made by Report
    mcalls,           \* history: number of calls made to the collector
    mlast,            \* history: the last call and requestsActive before it
    \* handleRequestHeaders running in the goroutines of two connections
    mpc,              \* per goroutine: the collector access it stands at
    mtmp,             \* per goroutine: the value it has loaded
    mallow,           \* per goroutine: its callback's Decision was "allow"
    dispatched,       \* history, per goroutine: dispatches completed
    agentTotal,       \* requestsTotal of the collector of BaseAgentV2
    mresp,            \* the last MetricsResponse
    \* correlation id projection
    hin,      \* the string handed to hashString
    hidx,     \* the index i of its loop, from 1 (0: no call was made)
    hout,     \* its h, as four 16-bit words, least significant first
    \* a reply on its way from the handler to the wire
    bpc,      \* "idle", "reply" (HandleMessage has returned it), "sent"
    bin,      \* the frame HandleMessage returned
    bout,     \* what the transport has put on the wire for it
    \* AgentRunnerV2 lifecycle
    rpc,          \* where Run stands
    sig,          \* where the signal goroutine stands
    draining,     \* r.draining
    shutdown,     \* r.shutdown is closed
    listening,    \* r.listener is open
    lpc,          \* per connection: where its pump stands
    streamClosed, \* per connection: number of OnStreamClosed calls
    onDrain,      \* "no", "running", "returned"
    onShutdown,   \* number of OnShutdown calls
    shutdownEarly,\* history: OnShutdown was invoked before OnDrain returned
    bornDraining, \* history, per connection: it was taken while draining
    inflight,     \* history, per connection: fate of a reply in flight at drain
    attempts,     \* history: connectReverse calls made, counted modulo AttemptsModulus
    registration  \* history: how the last registration exchange went

registryVars == <<requests, requestBodies, responseBodies, responseEvents>>

handlerVars == <<requests, requestBodies, responseBodies, responseEvents, cancelFuncs, ctxDone>>

decidedVars == <<termSeen, blockSeen>>

histVars == <<decidedVars, cancelRecv, stage, expect, rexpect>>

configVars == <<transport, capabilities>>

sessionVars == <<handlerVars, configVars, pc, cur, resp, first, rejected, histVars>>

codecVars == <<cpc, cfrom, cmsg, cwerr, cwire, cres>>

healthVars == <<hsState, hsChecks, hsInit>>

collectorVars == <<requestsTotal, requestsActive, requestsAllowed, requestsBlocked,
                   requestsErrored, latencies>>

dispatchVars == <<mpc, mtmp, mallow, dispatched, agentTotal, mresp>>

metricsVars == <<collectorVars, samples, report, mcalls, mlast, dispatchVars>>

hashVars == <<hin, hidx, hout>>

bridgeVars == <<bpc, bin, bout>>

runnerVars == <<rpc, sig, draining, shutdown, listening, lpc, streamClosed,
                onDrain, onShutdown, shutdownEarly, bornDraining, inflight, attempts,
                registration>>

\* what the actions of one part of the model leave alone
\* all but the session variables and requestsActive, which handleRequestHeaders
\* raises and lowers
nonSessionActiveVars ==
    <<codecVars, healthVars, requestsTotal, requestsAllowed, requestsBlocked,
      requestsErrored, latencies, samples, report, mcalls, mlast, dispatchVars,
      hashVars, bridgeVars, runnerVars>>

nonSessionVars == <<codecVars, healthVars, metricsVars, hashVars, bridgeVars, runnerVars>>

nonCodecVars == <<sessionVars, healthVars, metricsVars, hashVars, bridgeVars, runnerVars>>

nonHealthVars == <<sessionVars, codecVars, metricsVars, hashVars, bridgeVars, runnerVars>>

nonMetricsVars == <<sessionVars, codecVars, healthVars, hashVars, bridgeVars, runnerVars>>

nonHashVars == <<sessionVars, codecVars, healthVars, metricsVars, bridgeVars, runnerVars>>

nonRunnerVars == <<sessionVars, codecVars, healthVars, metricsVars, hashVars, bridgeVars>>

nonBridgeVars == <<sessionVars, codecVars, healthVars, metricsVars, hashVars,
                   runnerVars>>

vars == <<sessionVars, codecVars, healthVars, metricsVars, hashVars, bridgeVars, runnerVars>>

Dirty == [clean |-> FALSE, body |-> <<>>]

Clean(b) == [clean |-> TRUE, body |-> b]

\* what a body chunk handler saw: whether the chunks of its id came in order
\* since the headers, their concatenation, whether the body callback was
\* called and the body it was given
NoObs == [clean |-> FALSE, expected |-> <<>>, cb |-> FALSE, cbBody |-> <<>>]

\* what a handler produced: the frame it returned (NoFrame for nil), whether it
\* found a cached request and cached response headers, whether it found a
\* cancel handle, and the ids handleCancelAll called OnCancel for
Resp(frame, hadReq, hadResp, found, obs) ==
    [frame |-> frame, hadReq |-> hadReq, hadResp |-> hadResp, found |-> found,
     obs |-> obs, cancelled |-> {}]

NoResp == Resp(NoFrame, FALSE, FALSE, FALSE, NoObs)

\* the handler and the sessions before any connection
SessionStart ==
    /\ requests = EmptyMap
    /\ requestBodies = EmptyMap
    /\ responseBodies = EmptyMap
    /\ responseEvents = EmptyMap
    /\ cancelFuncs = EmptyMap
    /\ ctxDone = [s \in Sessions |-> FALSE]
    /\ transport \in Transports
    /\ pc = [s \in Sessions |-> "closed"]
    /\ cur = [s \in Sessions |-> NoIn]
    /\ resp = [s \in Sessions |-> NoResp]
    /\ first = [s \in Sessions |-> "none"]
    /\ rejected = [s \in Sessions |-> FALSE]
    /\ termSeen = [i \in Ids |-> FALSE]
    /\ blockSeen = [i \in Ids |-> FALSE]
    /\ cancelRecv = [i \in Ids |-> "no"]
    /\ stage = [i \in Ids |-> 0]
    /\ expect = [i \in Ids |-> Dirty]
    /\ rexpect = [i \in Ids |-> Dirty]

\* an agent with the default capabilities
SessionInit ==
    /\ SessionStart
    /\ capabilities = NewAgentCapabilities
(***************************************************************************)
(* The codec runs: a message is written and read back, possibly after the  *)
(* stream was cut short, or a reader is handed a forged length prefix.     *)
(***************************************************************************)
RECURSIVE SeqsUpTo(_, _)
SeqsUpTo(S, n) ==
    IF n = 0 THEN {<<>>}
    ELSE LET shorter == SeqsUpTo(S, n - 1)
         IN  shorter \cup {Append(q, x) : q \in {r \in shorter : Len(r) = n - 1}, x \in S}

\* payload bytes of the codec runs: '{', '}' and 'A'
CodecPayloads ==
    {NilBytes}
      \cup {Bytes(FromSeq(q)) : q \in SeqsUpTo({123, 125}, MaxSmall)}
      \cup {Bytes(<< <<65, n>> >>) :
               n \in (MaxMessageSizeV2 - 1 - Slack)..(MaxMessageSizeV2 - 1 + Slack)}

CodecTypes == {MsgTypeHandshakeRequest, MsgTypeRequestHeaders, MsgTypePing, 171}

CodecMsgs == {V2Message(t, id, p) : t \in CodecTypes, id \in {0, 42}, p \in CodecPayloads}

\* declared lengths of the forged prefixes
ForgedLengths ==
    {0, 1, 2, 3, 2147483647}
      \cup (MaxMessageSizeV2 - Slack)..(MaxMessageSizeV2 + Slack)

ForgedTails == {FromSeq(q) : q \in SeqsUpTo({123, 125}, MaxSmall)}

CodecInit ==
    /\ cpc = "pick"
    /\ cfrom = "none"
    /\ cmsg = NoMsg
    /\ cwerr = "nil"
    /\ cwire = <<>>
    /\ cres = ReadResult(NoMsg, "nil", <<>>)

CodecWrite(m) ==
    /\ cpc = "pick"
    /\ LET w == WriteMessageV2(m) IN
        /\ cwerr' = w.err
        /\ cwire' = w.out
    /\ cmsg' = m
    /\ cpc' = "written"
    /\ UNCHANGED <<cfrom, cres, nonCodecVars>>

\* the stream ends after k bytes of the frame, or k + 1 bytes before its end
CodecCut(k, fromEnd) ==
    /\ cpc = "written"
    /\ cwerr = "nil"
    /\ LET pos == IF fromEnd THEN BLen(cwire) - 1 - k ELSE k IN
        /\ pos \in 0..(BLen(cwire) - 1)
        /\ cwire' = BTake(cwire, pos)
    /\ cpc' = "cut"
    /\ UNCHANGED <<cfrom, cmsg, cwerr, cres, nonCodecVars>>

CodecForge(n, tail) ==
    /\ cpc = "pick"
    /\ cwire' = BCat(BigEndianPutUint32(n), tail)
    /\ cpc' = "forged"
    /\ UNCHANGED <<cfrom, cmsg, cwerr, cres, nonCodecVars>>

CodecRead ==
    /\ cpc \in {"written", "cut", "forged"}
    /\ cpc = "written" => cwerr = "nil"
    /\ cres' = ReadMessageV2(cwire)
    /\ cfrom' = cpc
    /\ cpc' = "read"
    /\ UNCHANGED <<cmsg, cwerr, cwire, nonCodecVars>>

CodecNext ==
    \/ \E m \in CodecMsgs : CodecWrite(m)
    \/ \E k \in 0..MaxCut, fromEnd \in BOOLEAN : CodecCut(k, fromEnd)
    \/ \E n \in ForgedLengths, tail \in ForgedTails : CodecForge(n, tail)
    \/ CodecRead


(***************************************************************************)
(* Health status (HealthStatus, WithCheck).                                *)
(***************************************************************************)
\* a HealthStatus holds at most this many checks
MaxChecks == 3

HealthStateHealthy == "healthy"

HealthStateDegraded == "degraded"

HealthStateUnhealthy == "unhealthy"

HealthStates == {HealthStateHealthy, HealthStateDegraded, HealthStateUnhealthy}

\* WithCheck with the overall state replaced by the state of the last check
WithCheck_LastCheckWins(state, check) == check

\* the State that WithCheck leaves in a status whose State is state
WithCheck(state, check) ==
    IF check = HealthStateUnhealthy /\ state # HealthStateUnhealthy
    THEN HealthStateUnhealthy
    ELSE IF check = HealthStateDegraded /\ state = HealthStateHealthy
         THEN HealthStateDegraded
         ELSE state

HealthIdle ==
    /\ hsState = "none"
    /\ hsChecks = <<>>
    /\ hsInit = "none"

\* NewHealthStatus, Healthy, Degraded, Unhealthy
NewHealthStatus(st) ==
    /\ hsState = "none"
    /\ hsState' = st
    /\ hsInit' = st
    /\ hsChecks' = <<>>
    /\ UNCHANGED nonHealthVars

AddCheck(check) ==
    /\ hsState # "none"
    /\ Len(hsChecks) < MaxChecks
    /\ hsChecks' = Append(hsChecks, check)
    /\ hsState' = WithCheck(hsState, check)
    /\ UNCHANGED <<hsInit, nonHealthVars>>

HealthNext ==
    \/ \E st \in HealthStates : NewHealthStatus(st)
    \/ \E check \in HealthStates : AddCheck(check)

(***************************************************************************)
(* Metrics collector (MetricsCollector).                                   *)
(***************************************************************************)
\* a run makes at most this many calls to the collector
MaxMetricCalls == 5

\* the number of samples the latency window keeps: 1000 in the source, small
\* here so that MaxMetricCalls calls overfill it
LatencyWindow == 3

\* the latencies a request can have, in milliseconds
Latencies == {1, 2}

\* the goroutines, one per connection, that call r.handler
Dispatchers == {1, 2}

\* each goroutine dispatches at most this many RequestHeaders events
MaxDispatch == 1

\* requestsActive is a uint32, kept as two 16-bit words <<high, low>>
Word16 == 65536

U32Zero == <<0, 0>>

U32Max == <<Word16 - 1, Word16 - 1>>

\* v + 1 and v - 1 in uint32 arithmetic
U32Inc(v) == IF v[2] = Word16 - 1 THEN <<(v[1] + 1) % Word16, 0>> ELSE <<v[1], v[2] + 1>>

U32Dec(v) == IF v[2] = 0 THEN <<(v[1] - 1) % Word16, Word16 - 1>> ELSE <<v[1], v[2] - 1>>

U32Less(a, b) == a[1] < b[1] \/ (a[1] = b[1] /\ a[2] < b[2])

NoReport == [made |-> FALSE, RequestsTotal |-> 0, RequestsActive |-> U32Zero,
             RequestsAllowed |-> 0, RequestsBlocked |-> 0, RequestsErrored |-> 0]

NoCall == [op |-> "none", before |-> U32Zero]

NoLoad == [n |-> 0, a |-> U32Zero, l |-> <<>>]

NoMetricsResponse == [made |-> FALSE, RequestsTotal |-> 0, dispatched |-> 0]

\* append, then c.latencies[len(c.latencies)-1000:] if it has grown past 1000
Window(l, latencyMs) ==
    LET a == Append(l, latencyMs)
    IN  IF Len(a) > LatencyWindow
        THEN SubSeq(a, Len(a) - LatencyWindow + 1, Len(a))
        ELSE a

\* nothing was called yet, and the collector of the agent is new
MetricsHistoryIdle ==
    /\ samples = <<>>
    /\ report = NoReport
    /\ mcalls = 0
    /\ mlast = NoCall
    /\ mpc = [g \in Dispatchers |-> "idle"]
    /\ mtmp = [g \in Dispatchers |-> NoLoad]
    /\ mallow = [g \in Dispatchers |-> FALSE]
    /\ dispatched = [g \in Dispatchers |-> 0]
    /\ agentTotal = 0
    /\ mresp = NoMetricsResponse

\* NewMetricsCollector
MetricsIdle ==
    /\ requestsTotal = 0
    /\ requestsActive = U32Zero
    /\ requestsAllowed = 0
    /\ requestsBlocked = 0
    /\ requestsErrored = 0
    /\ latencies = <<>>
    /\ MetricsHistoryIdle

\* the values of requestsActive a run starts from: a fresh collector, and one
\* that has seen 2^32 - 2 more IncrementActive than DecrementActive calls
ActiveStarts == {U32Zero, U32Dec(U32Max)}

Called(op) ==
    /\ mcalls < MaxMetricCalls
    /\ mcalls' = mcalls + 1
    /\ mlast' = [op |-> op, before |-> requestsActive]

\* RecordRequest that stops recording latencies once the window is full
RecordRequest_KeepFirst(allowed, latencyMs) ==
    /\ Called("record")
    /\ requestsTotal' = requestsTotal + 1
    /\ IF allowed
       THEN requestsAllowed' = requestsAllowed + 1 /\ UNCHANGED requestsBlocked
       ELSE requestsBlocked' = requestsBlocked + 1 /\ UNCHANGED requestsAllowed
    /\ latencies' = IF Len(latencies) < LatencyWindow
                    THEN Append(latencies, latencyMs)
                    ELSE latencies
    /\ samples' = Append(samples, latencyMs)
    /\ UNCHANGED <<requestsActive, requestsErrored, report, dispatchVars,
                   nonMetricsVars>>

\* the uint64 counters stay far below 2^64 within MaxMetricCalls calls
RecordRequest(allowed, latencyMs) ==
    /\ Called("record")
    /\ requestsTotal' = requestsTotal + 1
    /\ IF allowed
       THEN requestsAllowed' = requestsAllowed + 1 /\ UNCHANGED requestsBlocked
       ELSE requestsBlocked' = requestsBlocked + 1 /\ UNCHANGED requestsAllowed
    /\ latencies' = Window(latencies, latencyMs)
    /\ samples' = Append(samples, latencyMs)
    /\ UNCHANGED <<requestsActive, requestsErrored, report, dispatchVars,
                   nonMetricsVars>>

\* RecordError that counts the error but not the request
RecordError_ErroredOnly ==
    /\ Called("error")
    /\ requestsErrored' = requestsErrored + 1
    /\ UNCHANGED <<requestsTotal, requestsActive, requestsAllowed, requestsBlocked,
                   report, latencies, samples, dispatchVars,
                   nonMetricsVars>>

RecordError ==
    /\ Called("error")
    /\ requestsTotal' = requestsTotal + 1
    /\ requestsErrored' = requestsErrored + 1
    /\ UNCHANGED <<requestsActive, requestsAllowed, requestsBlocked, report,
                   latencies, samples, dispatchVars, nonMetricsVars>>

IncrementActive ==
    /\ Called("inc")
    /\ requestsActive' = U32Inc(requestsActive)
    /\ UNCHANGED <<requestsTotal, requestsAllowed, requestsBlocked, requestsErrored,
                   report, latencies, samples, dispatchVars,
                   nonMetricsVars>>

\* DecrementActive without its test for zero
DecrementActive_Unguarded ==
    /\ Called("dec")
    /\ requestsActive' = U32Dec(requestsActive)
    /\ UNCHANGED <<requestsTotal, requestsAllowed, requestsBlocked, requestsErrored,
                   report, latencies, samples, dispatchVars,
                   nonMetricsVars>>

DecrementActive ==
    /\ Called("dec")
    /\ requestsActive' = IF requestsActive # U32Zero
                         THEN U32Dec(requestsActive)
                         ELSE requestsActive
    /\ UNCHANGED <<requestsTotal, requestsAllowed, requestsBlocked, requestsErrored,
                   report, latencies, samples, dispatchVars,
                   nonMetricsVars>>

Report ==
    /\ Called("report")
    /\ report' = [made |-> TRUE, RequestsTotal |-> requestsTotal,
                  RequestsActive |-> requestsActive,
                  RequestsAllowed |-> requestsAllowed,
                  RequestsBlocked |-> requestsBlocked,
                  RequestsErrored |-> requestsErrored]
    /\ UNCHANGED <<requestsTotal, requestsActive, requestsAllowed, requestsBlocked,
                   requestsErrored, latencies, samples, dispatchVars,
                   nonMetricsVars>>

MetricsNext ==
    \/ \E allowed \in BOOLEAN, latencyMs \in Latencies : RecordRequest(allowed, latencyMs)
    \/ RecordError
    \/ IncrementActive
    \/ DecrementActive
    \/ Report

(***************************************************************************)
(* handleRequestHeaders called by the goroutines of two connections on the *)
(* one handler of the runner.  The collector has no lock and its counters  *)
(* are plain fields, so each update is a load followed by a store and the  *)
(* goroutines interleave between the two.                                  *)
(***************************************************************************)
LoadSteps == {"incLoad", "totalLoad", "kindLoad", "latLoad", "decLoad"}

StoreSteps == {"incStore", "totalStore", "kindStore", "latStore", "decStore"}

\* the store that follows a load, and the step that follows a store
AfterStep(step) ==
    CASE step = "incLoad" -> "incStore"
      [] step = "incStore" -> "callback"
      [] step = "totalLoad" -> "totalStore"
      [] step = "totalStore" -> "kindLoad"
      [] step = "kindLoad" -> "kindStore"
      [] step = "kindStore" -> "latLoad"
      [] step = "latLoad" -> "latStore"
      [] step = "latStore" -> "decLoad"
      [] step = "decLoad" -> "decStore"
      [] step = "decStore" -> "idle"

\* the time a dispatch is measured to take, in milliseconds
Elapsed == 1

\* a connection goroutine enters handleRequestHeaders with a RequestHeaders
\* frame that parses
DispatchBegin(g) ==
    /\ mpc[g] = "idle"
    /\ dispatched[g] < MaxDispatch
    /\ mpc' = [mpc EXCEPT ![g] = "incLoad"]
    /\ UNCHANGED <<collectorVars, samples, report, mcalls, mlast, mtmp, mallow,
                   dispatched, agentTotal, mresp, nonMetricsVars>>

\* the goroutine reads the field its next update is about: requestsActive
\* (IncrementActive, DecrementActive), requestsTotal, requestsAllowed or
\* requestsBlocked, latencies (RecordRequest)
CollectorLoad(g) ==
    /\ mpc[g] \in LoadSteps
    /\ mtmp' = [mtmp EXCEPT ![g] =
                  CASE mpc[g] \in {"incLoad", "decLoad"} -> [NoLoad EXCEPT !.a = requestsActive]
                    [] mpc[g] = "totalLoad" -> [NoLoad EXCEPT !.n = requestsTotal]
                    [] mpc[g] = "kindLoad" ->
                         [NoLoad EXCEPT !.n = IF mallow[g] THEN requestsAllowed
                                                          ELSE requestsBlocked]
                    [] mpc[g] = "latLoad" -> [NoLoad EXCEPT !.l = latencies]]
    /\ mpc' = [mpc EXCEPT ![g] = AfterStep(@)]
    /\ UNCHANGED <<collectorVars, samples, report, mcalls, mlast, mallow,
                   dispatched, agentTotal, mresp, nonMetricsVars>>

\* the goroutine writes the field back, changed; the DecrementActive that ends
\* the dispatch writes only if it read a value above 0
CollectorStore(g) ==
    /\ mpc[g] \in StoreSteps
    /\ requestsActive' =
          CASE mpc[g] = "incStore" -> U32Inc(mtmp[g].a)
            [] mpc[g] = "decStore" /\ mtmp[g].a # U32Zero -> U32Dec(mtmp[g].a)
            [] OTHER -> requestsActive
    /\ requestsTotal' = IF mpc[g] = "totalStore" THEN mtmp[g].n + 1 ELSE requestsTotal
    /\ requestsAllowed' = IF mpc[g] = "kindStore" /\ mallow[g]
                          THEN mtmp[g].n + 1
                          ELSE requestsAllowed
    /\ requestsBlocked' = IF mpc[g] = "kindStore" /\ ~mallow[g]
                          THEN mtmp[g].n + 1
                          ELSE requestsBlocked
    /\ latencies' = IF mpc[g] = "latStore" THEN Window(mtmp[g].l, Elapsed) ELSE latencies
    /\ dispatched' = [dispatched EXCEPT ![g] = IF mpc[g] = "decStore" THEN @ + 1 ELSE @]
    /\ mtmp' = [mtmp EXCEPT ![g] = NoLoad]
    /\ mpc' = [mpc EXCEPT ![g] = AfterStep(@)]
    /\ UNCHANGED <<requestsErrored, samples, report, mcalls, mlast, mallow,
                   agentTotal, mresp, nonMetricsVars>>

\* OnRequest returns its Decision
OnRequestReturn(g, allowed) ==
    /\ mpc[g] = "callback"
    /\ mallow' = [mallow EXCEPT ![g] = allowed]
    /\ mpc' = [mpc EXCEPT ![g] = "totalLoad"]
    /\ UNCHANGED <<collectorVars, samples, report, mcalls, mlast, mtmp, dispatched,
                   agentTotal, mresp, nonMetricsVars>>

RECURSIVE SumOver(_, _)
SumOver(f, S) ==
    IF S = {} THEN 0
    ELSE LET x == CHOOSE y \in S : TRUE IN f[x] + SumOver(f, S \ {x})

\* handleRequestHeaders run from its first line to its last by one goroutine
\* while no other is in it: IncrementActive, the callback, which may count the
\* request in the collector of the agent (MetricsCollectorRef), RecordRequest
\* on the collector of the handler, and the deferred DecrementActive
DispatchRequestHeaders(g, allowed, counted, latencyMs) ==
    /\ Called("dispatch")
    /\ requestsTotal' = requestsTotal + 1
    /\ IF allowed
       THEN requestsAllowed' = requestsAllowed + 1 /\ UNCHANGED requestsBlocked
       ELSE requestsBlocked' = requestsBlocked + 1 /\ UNCHANGED requestsAllowed
    /\ latencies' = Window(latencies, latencyMs)
    /\ samples' = Append(samples, latencyMs)
    /\ requestsActive' = IF U32Inc(requestsActive) # U32Zero
                         THEN requestsActive
                         ELSE U32Zero
    /\ agentTotal' = IF counted THEN agentTotal + 1 ELSE agentTotal
    /\ dispatched' = [dispatched EXCEPT ![g] = @ + 1]
    /\ UNCHANGED <<requestsErrored, report, mpc, mtmp, mallow, mresp, nonMetricsVars>>

\* handleMetricsRequest: the MetricsResponse is the report of the agent's
\* Metrics, which for BaseAgentV2 is the report of the agent's own collector
handleMetricsRequest ==
    /\ Called("metrics")
    /\ mresp' = [made |-> TRUE, RequestsTotal |-> agentTotal,
                 dispatched |-> SumOver(dispatched, Dispatchers)]
    /\ UNCHANGED <<collectorVars, samples, report, mpc, mtmp, mallow, dispatched,
                   agentTotal, nonMetricsVars>>

ReportNext ==
    \/ \E g \in Dispatchers, allowed \in BOOLEAN, counted \in BOOLEAN, latencyMs \in Latencies :
          DispatchRequestHeaders(g, allowed, counted, latencyMs)
    \/ handleMetricsRequest

DispatchNext ==
    \/ \E g \in Dispatchers : DispatchBegin(g)
    \/ \E g \in Dispatchers : CollectorLoad(g)
    \/ \E g \in Dispatchers : CollectorStore(g)
    \/ \E g \in Dispatchers, allowed \in BOOLEAN : OnRequestReturn(g, allowed)

(***************************************************************************)
(* Projection of a correlation id to a request id (hashString).            *)
(***************************************************************************)
\* strings over HashAlphabet up to this length are hashed
MaxHashLen == 4

\* a uint64 is kept as four 16-bit words, least significant first
U64Carry(s) ==
    LET w1 == s[1]
        w2 == s[2] + (w1 \div Word16)
        w3 == s[3] + (w2 \div Word16)
        w4 == s[4] + (w3 \div Word16)
    IN  <<w1 % Word16, w2 % Word16, w3 % Word16, w4 % Word16>>

\* h << 5, a + b and uint64(b) in uint64 arithmetic
U64Shl5(h) == U64Carry(<<h[1] * 32, h[2] * 32, h[3] * 32, h[4] * 32>>)

U64Add(a, b) == U64Carry(<<a[1] + b[1], a[2] + b[2], a[3] + b[3], a[4] + b[4]>>)

U64FromByte(b) == <<b, 0, 0, 0>>

\* one iteration of a loop that shifts by 4 instead of 5
hashStringStep_Shl4(h, b) ==
    U64Add(U64Add(U64Carry(<<h[1] * 16, h[2] * 16, h[3] * 16, h[4] * 16>>), h),
           U64FromByte(b))

\* one iteration of the loop of hashString: h = ((h << 5) + h) + uint64(s[i])
hashStringStep(h, b) == U64Add(U64Add(U64Shl5(h), h), U64FromByte(b))

\* var h uint64 = 5381
hashStringInit == <<5381, 0, 0, 0>>

\* "req-123"
SampleCorrelationID == <<114, 101, 113, 45, 49, 50, 51>>

HashAlphabet == {0, 97, 255}

\* short strings, the sample, and two strings long enough for the hash to
\* exceed 2^64
HashInputs ==
    SeqsUpTo(HashAlphabet, MaxHashLen)
      \cup {SampleCorrelationID,
            <<97, 97, 97, 97, 97, 97, 97, 97, 97, 97, 97, 97, 97>>,
            <<255, 255, 255, 255, 255, 255, 255, 255, 255, 255, 255, 255, 255, 255>>}

NoHash == <<0, 0, 0, 0>>

HashIdle ==
    /\ hin = <<>>
    /\ hidx = 0
    /\ hout = NoHash

\* hashString is called with the correlation id of an event
HashCall(s) ==
    /\ hidx = 0
    /\ hin' = s
    /\ hidx' = 1
    /\ hout' = hashStringInit
    /\ UNCHANGED nonHashVars

\* one iteration of its loop
HashIterate ==
    /\ hidx \in 1..Len(hin)
    /\ hout' = hashStringStep(hout, hin[hidx])
    /\ hidx' = hidx + 1
    /\ UNCHANGED <<hin, nonHashVars>>

\* the loop has ended and hashString returns h
HashReturned == hidx = Len(hin) + 1

HashNext ==
    \/ \E s \in HashInputs : HashCall(s)
    \/ HashIterate

(***************************************************************************)
(* Replies on their way to the proxy: written as they are on the socket    *)
(* transports, translated by v2MessageToGRPCResponse on the RPC bridge.    *)
(***************************************************************************)
\* the largest request id of a reply
MaxReplyId == 12

ReplyDecisions == {"allow", "block", "redirect", "challenge"}

\* the Decision frames the handler builds
DecisionFrames ==
    {buildDecisionMessage(id, d) : id \in 0..MaxReplyId, d \in ReplyDecisions}
        \cup {buildNeedsMoreDecision(id) : id \in 0..MaxReplyId}

NoWire == [via |-> "none"]

BridgeIdle ==
    /\ bpc = "idle"
    /\ bin = NoFrame
    /\ bout = NoWire

DigitChars == <<"0", "1", "2", "3", "4", "5", "6", "7", "8", "9">>

\* fmt.Sprintf("%d", n)
RECURSIVE Decimal(_)
Decimal(n) ==
    IF n < 10 THEN <<DigitChars[n + 1]>>
    ELSE Append(Decimal(n \div 10), DigitChars[(n % 10) + 1])

\* the shape of the JSON value of V2Decision.Decision: the bare string
\* "allow", or an object with the one key that names the decision
NeedsMoreValue == [shape |-> "object", key |-> "needs_more"]

DecisionValue(f) ==
    IF f.Decision = "allow"
    THEN [shape |-> "string", key |-> "allow"]
    ELSE [shape |-> "object", key |-> f.Decision]

\* WriteMessageV2 of a Decision frame: the payload is the V2Decision as the
\* handler marshalled it
V2DecisionWire(f) ==
    [via |-> "socket", request_id |-> f.RequestID, decision |-> DecisionValue(f)]

\* convertDecisionToGRPC: the correlation id is the decimal text of the
\* request id; a needs_more decision becomes the decision "allow" with the
\* needs_more flag set
convertDecisionToGRPC(f) ==
    [via |-> "grpc", correlation_id |-> Decimal(f.RequestID),
     decision |-> IF DecisionValue(f) = NeedsMoreValue
                  THEN [shape |-> "string", key |-> "allow"]
                  ELSE DecisionValue(f),
     needs_more |-> DecisionValue(f) = NeedsMoreValue]

\* HandleMessage returns a Decision frame to the pump
HandlerReply(f) ==
    /\ bpc = "idle"
    /\ bin' = f
    /\ bpc' = "reply"
    /\ UNCHANGED <<bout, nonBridgeVars>>

\* the pump of a socket transport writes the frame
SendSocket ==
    /\ bpc = "reply"
    /\ transport # "grpc"
    /\ bout' = V2DecisionWire(bin)
    /\ bpc' = "sent"
    /\ UNCHANGED <<bin, nonBridgeVars>>

\* processStream translates the frame and sends the translation
SendGRPC ==
    /\ bpc = "reply"
    /\ transport = "grpc"
    /\ bout' = convertDecisionToGRPC(bin)
    /\ bpc' = "sent"
    /\ UNCHANGED <<bin, nonBridgeVars>>

BridgeNext ==
    \/ \E f \in DecisionFrames : HandlerReply(f)
    \/ SendSocket
    \/ SendGRPC

(***************************************************************************)
(* Runner lifecycle (Run, signal handling, drain, the connection pumps).   *)
(***************************************************************************)
RunnerConns == {1, 2}

\* connectReverse calls are counted modulo this number
AttemptsModulus == 3

\* the ways the registration exchange of connectReverse can go
RegistrationOutcomes ==
    {"dial-fail", "write-fail", "read-err", "eof", "other-type", "unparseable",
     "rejected", "accepted"}

RunnerIdle ==
    /\ rpc = "init"
    /\ sig = "none"
    /\ draining = FALSE
    /\ shutdown = FALSE
    /\ listening = FALSE
    /\ lpc = [c \in RunnerConns |-> "none"]
    /\ streamClosed = [c \in RunnerConns |-> 0]
    /\ onDrain = "no"
    /\ onShutdown = 0
    /\ shutdownEarly = FALSE
    /\ bornDraining = [c \in RunnerConns |-> FALSE]
    /\ inflight = [c \in RunnerConns |-> "none"]
    /\ attempts = 0
    /\ registration = "none"

\* wg.Wait returns: no connection goroutine is running
Drained == \A c \in RunnerConns : lpc[c] \in {"none", "closed"}

\* Run: runUDS listens and installs the signal handler, runReverse installs
\* the signal handler, runGRPC returns an error
Run(ok) ==
    /\ rpc = "init"
    /\ CASE transport = "uds" /\ ok ->
              /\ listening' = TRUE
              /\ sig' = "wait"
              /\ rpc' = "accept"
         [] transport = "reverse" /\ ok ->
              /\ sig' = "wait"
              /\ rpc' = "rtop"
              /\ UNCHANGED listening
         [] OTHER ->
              /\ rpc' = "returned"
              /\ UNCHANGED <<listening, sig>>
    /\ UNCHANGED <<draining, shutdown, lpc, streamClosed, onDrain, onShutdown,
                   shutdownEarly, bornDraining, inflight, attempts,
                   registration, nonRunnerVars>>

\* the signal goroutine receives SIGINT or SIGTERM, sets draining and calls
\* OnDrain
Signal ==
    /\ sig = "wait"
    /\ rpc # "panicked"
    /\ draining' = TRUE
    /\ onDrain' = "running"
    /\ sig' = "draining"
    /\ inflight' = [c \in RunnerConns |->
                      IF lpc[c] = "callback" THEN "pending" ELSE inflight[c]]
    /\ UNCHANGED <<rpc, shutdown, listening, lpc, streamClosed, onShutdown,
                   shutdownEarly, bornDraining, attempts,
                   registration, nonRunnerVars>>

\* OnDrain returns and r.shutdown is closed
OnDrainReturn ==
    /\ sig = "draining"
    /\ rpc # "panicked"
    /\ onDrain' = "returned"
    /\ shutdown' = TRUE
    /\ sig' = "closing"
    /\ UNCHANGED <<rpc, draining, listening, lpc, streamClosed, onShutdown,
                   shutdownEarly, bornDraining, inflight, attempts,
                   registration, nonRunnerVars>>

\* the listener, if there is one, is closed
CloseListener ==
    /\ sig = "closing"
    /\ rpc # "panicked"
    /\ listening' = FALSE
    /\ sig' = "done"
    /\ UNCHANGED <<rpc, draining, shutdown, lpc, streamClosed, onDrain, onShutdown,
                   shutdownEarly, bornDraining, inflight, attempts,
                   registration, nonRunnerVars>>

\* runUDS: Accept returns a connection and its goroutine is started
Accept(c) ==
    /\ rpc = "accept"
    /\ listening
    /\ lpc[c] = "none"
    /\ lpc' = [lpc EXCEPT ![c] = "hs"]
    /\ bornDraining' = [bornDraining EXCEPT ![c] = draining]
    /\ UNCHANGED <<rpc, sig, draining, shutdown, listening, streamClosed, onDrain,
                   onShutdown, shutdownEarly, inflight, attempts,
                   registration, nonRunnerVars>>

\* runUDS leaving its accept loop on any Accept error
AcceptError_AlwaysBreak ==
    /\ rpc = "accept"
    /\ rpc' = "drainWait"
    /\ UNCHANGED <<sig, draining, shutdown, listening, lpc, streamClosed, onDrain,
                   onShutdown, shutdownEarly, bornDraining, inflight, attempts,
                   registration, nonRunnerVars>>

\* runUDS: Accept returns an error (always once the listener is closed); the
\* loop is left if r.shutdown is closed and continues otherwise
AcceptError ==
    /\ rpc = "accept"
    /\ rpc' = IF shutdown THEN "drainWait" ELSE "accept"
    /\ UNCHANGED <<sig, draining, shutdown, listening, lpc, streamClosed, onDrain,
                   onShutdown, shutdownEarly, bornDraining, inflight, attempts,
                   registration, nonRunnerVars>>

\* waitForDrain: wg.Wait returns or the drain timeout fires, OnShutdown is
\* called, and runUDS returns
waitForDrain(timeout) ==
    /\ rpc = "drainWait"
    /\ timeout \/ Drained
    /\ onShutdown' = onShutdown + 1
    /\ shutdownEarly' = (shutdownEarly \/ onDrain # "returned")
    /\ rpc' = "returned"
    /\ UNCHANGED <<sig, draining, shutdown, listening, lpc, streamClosed, onDrain,
                   bornDraining, inflight, attempts,
                   registration, nonRunnerVars>>

\* runReverse: r.shutdown is not closed at the head of the loop and
\* connectReverse is called.  It dials, writes the Registration frame and
\* reads the reply: an accepted RegistrationAck gives a connection, which
\* handleReverseConnection then serves; a clean end of stream makes
\* ReadMessageV2 return (nil, nil) and respMsg.Type dereferences nil, which
\* panics; every other outcome closes the connection and returns an error,
\* after which the loop sleeps and retries
ConnectReverse(c, out) ==
    /\ rpc = "rtop"
    /\ ~shutdown
    /\ lpc[c] \in {"none", "closed"}
    /\ attempts' = (attempts + 1) % AttemptsModulus
    /\ registration' = out
    /\ CASE out = "accepted" ->
              /\ lpc' = [lpc EXCEPT ![c] = "top"]
              /\ bornDraining' = [bornDraining EXCEPT ![c] = draining]
              /\ streamClosed' = [streamClosed EXCEPT ![c] = 0]
              /\ inflight' = [inflight EXCEPT ![c] = "none"]
              /\ rpc' = "rconn"
         [] out = "eof" ->
              /\ rpc' = "panicked"
              /\ UNCHANGED <<lpc, bornDraining, streamClosed, inflight>>
         [] OTHER -> UNCHANGED <<lpc, bornDraining, streamClosed, inflight, rpc>>
    /\ UNCHANGED <<sig, draining, shutdown, listening, onDrain, onShutdown,
                   shutdownEarly, nonRunnerVars>>

\* runReverse: handleReverseConnection has returned; reconnect unless
\* r.shutdown is closed
ReverseDisconnected ==
    /\ rpc = "rconn"
    /\ Drained
    /\ rpc' = IF shutdown THEN "returned" ELSE "rtop"
    /\ UNCHANGED <<sig, draining, shutdown, listening, lpc, streamClosed, onDrain,
                   onShutdown, shutdownEarly, bornDraining, inflight, attempts,
                   registration, nonRunnerVars>>

\* runReverse: r.shutdown is closed at the head of the loop
ReverseReturn ==
    /\ rpc = "rtop"
    /\ shutdown
    /\ rpc' = "returned"
    /\ UNCHANGED <<sig, draining, shutdown, listening, lpc, streamClosed, onDrain,
                   onShutdown, shutdownEarly, bornDraining, inflight, attempts,
                   registration, nonRunnerVars>>

\* the gRPC server starts processStream for a new stream
StreamStart(c) ==
    /\ transport = "grpc"
    /\ lpc[c] = "none"
    /\ lpc' = [lpc EXCEPT ![c] = "top"]
    /\ bornDraining' = [bornDraining EXCEPT ![c] = draining]
    /\ UNCHANGED <<rpc, sig, draining, shutdown, listening, streamClosed, onDrain,
                   onShutdown, shutdownEarly, inflight, attempts,
                   registration, nonRunnerVars>>

\* the pump of connection c returns, having called OnStreamClosed or not
PumpClose(c, notified) ==
    /\ lpc' = [lpc EXCEPT ![c] = "closed"]
    /\ streamClosed' = [streamClosed EXCEPT ![c] = @ + (IF notified THEN 1 ELSE 0)]

\* handleUDSConnection: performHandshake succeeds, or fails and the goroutine
\* returns
PumpHandshake(c, ok) ==
    /\ lpc[c] = "hs"
    /\ IF ok
       THEN lpc' = [lpc EXCEPT ![c] = "top"] /\ UNCHANGED streamClosed
       ELSE PumpClose(c, FALSE)
    /\ UNCHANGED <<rpc, sig, draining, shutdown, listening, onDrain, onShutdown,
                   shutdownEarly, bornDraining, inflight, attempts,
                   registration, nonRunnerVars>>

\* head of the pump loop: r.shutdown is tested on every transport, r.draining
\* by handleUDSConnection and processStream but not by handleReverseConnection
PumpTop(c) ==
    /\ lpc[c] = "top"
    /\ IF shutdown \/ (draining /\ transport # "reverse")
       THEN PumpClose(c, TRUE)
       ELSE lpc' = [lpc EXCEPT ![c] = "read"] /\ UNCHANGED streamClosed
    /\ UNCHANGED <<rpc, sig, draining, shutdown, listening, onDrain, onShutdown,
                   shutdownEarly, bornDraining, inflight, attempts,
                   registration, nonRunnerVars>>

\* the read returns: a request event (its policy callback begins), another
\* frame, end of stream, or an error
PumpRead(c, rd) ==
    /\ lpc[c] = "read"
    /\ CASE rd = "request" -> lpc' = [lpc EXCEPT ![c] = "callback"] /\ UNCHANGED streamClosed
         [] rd = "control" -> lpc' = [lpc EXCEPT ![c] = "handle"] /\ UNCHANGED streamClosed
         [] OTHER -> PumpClose(c, TRUE)
    /\ UNCHANGED <<rpc, sig, draining, shutdown, listening, onDrain, onShutdown,
                   shutdownEarly, bornDraining, inflight, attempts,
                   registration, nonRunnerVars>>

\* a pump that drops the Decision of its callback when the runner is draining
PumpCallbackReturn_DropWhenDraining(c) ==
    /\ lpc[c] = "callback"
    /\ lpc' = [lpc EXCEPT ![c] = IF draining THEN "top" ELSE "write"]
    /\ UNCHANGED <<rpc, sig, draining, shutdown, listening, streamClosed, onDrain,
                   onShutdown, shutdownEarly, bornDraining, inflight, attempts,
                   registration, nonRunnerVars>>

\* the policy callback returns and HandleMessage returns its Decision
PumpCallbackReturn(c) ==
    /\ lpc[c] = "callback"
    /\ lpc' = [lpc EXCEPT ![c] = "write"]
    /\ UNCHANGED <<rpc, sig, draining, shutdown, listening, streamClosed, onDrain,
                   onShutdown, shutdownEarly, bornDraining, inflight, attempts,
                   registration, nonRunnerVars>>

\* HandleMessage returns for another frame: a response, or nil (a cancel, a
\* frame the bridge skips), and the loop continues
PumpHandle(c, r) ==
    /\ lpc[c] = "handle"
    /\ lpc' = [lpc EXCEPT ![c] = IF r = "frame" THEN "write" ELSE "top"]
    /\ UNCHANGED <<rpc, sig, draining, shutdown, listening, streamClosed, onDrain,
                   onShutdown, shutdownEarly, bornDraining, inflight, attempts,
                   registration, nonRunnerVars>>

\* the response is written; a write error ends the pump
PumpWrite(c, wok) ==
    /\ lpc[c] = "write"
    /\ IF wok
       THEN lpc' = [lpc EXCEPT ![c] = "top"] /\ UNCHANGED streamClosed
       ELSE PumpClose(c, TRUE)
    /\ inflight' = [inflight EXCEPT ![c] =
                      IF @ = "pending" THEN (IF wok THEN "written" ELSE "failed") ELSE @]
    /\ UNCHANGED <<rpc, sig, draining, shutdown, listening, onDrain, onShutdown,
                   shutdownEarly, bornDraining, attempts,
                   registration, nonRunnerVars>>

RunnerNext ==
    \/ \E ok \in BOOLEAN : Run(ok)
    \/ Signal
    \/ OnDrainReturn
    \/ CloseListener
    \/ \E c \in RunnerConns : Accept(c)
    \/ AcceptError
    \/ \E timeout \in BOOLEAN : waitForDrain(timeout)
    \/ \E c \in RunnerConns, out \in RegistrationOutcomes : ConnectReverse(c, out)
    \/ ReverseDisconnected
    \/ ReverseReturn
    \/ \E c \in RunnerConns : StreamStart(c)
    \/ \E c \in RunnerConns, ok \in BOOLEAN : PumpHandshake(c, ok)
    \/ \E c \in RunnerConns : PumpTop(c)
    \/ \E c \in RunnerConns, rd \in {"request", "control", "eof", "err"} : PumpRead(c, rd)
    \/ \E c \in RunnerConns : PumpCallbackReturn(c)
    \/ \E c \in RunnerConns, r \in {"frame", "nil"} : PumpHandle(c, r)
    \/ \E c \in RunnerConns, wok \in BOOLEAN : PumpWrite(c, wok)

\* the steps the runner takes by itself once they are possible: callbacks
\* return, goroutines are scheduled, the drain timeout fires; the signal, new
\* connections and inbound frames are up to the environment
RunnerFairness ==
    /\ WF_vars(OnDrainReturn)
    /\ WF_vars(CloseListener)
    /\ WF_vars(AcceptError)
    /\ WF_vars(\E timeout \in BOOLEAN : waitForDrain(timeout))
    /\ WF_vars(ReverseDisconnected)
    /\ WF_vars(ReverseReturn)
    /\ WF_vars(\E c \in RunnerConns, out \in RegistrationOutcomes : ConnectReverse(c, out))
    /\ \A c \in RunnerConns :
          /\ WF_vars(PumpTop(c))
          /\ WF_vars(PumpCallbackReturn(c))
          /\ WF_vars(\E r \in {"frame", "nil"} : PumpHandle(c, r))
          /\ WF_vars(\E wok \in BOOLEAN : PumpWrite(c, wok))
(***************************************************************************)
(* The frames a transport can hand to HandleMessage.  The socket pumps     *)
(* pass on whatever ReadMessageV2 returns; the gRPC bridge builds the      *)
(* message itself (grpcProxyToV2Message), always a well-formed payload,    *)
(* a handshake of version ProtocolVersionV2, and only these types.         *)
(***************************************************************************)
GRPCTypes ==
    {MsgTypeHandshakeRequest, MsgTypeRequestHeaders, MsgTypeRequestBodyChunk,
     MsgTypeResponseHeaders, MsgTypeResponseBodyChunk, MsgTypeCancelRequest,
     MsgTypePing}

Deliverable(tr, m) ==
    tr = "grpc" => /\ m.Type \in GRPCTypes
                   /\ m.parseOK
                   /\ m.Type = MsgTypeHandshakeRequest
                         => m.ProtocolVersion = ProtocolVersionV2

HandshakeGate_Absent(msg) == TRUE

\* performHandshake: the first message of a connection is a handshake request
HandshakeGate(msg) == msg.Type = MsgTypeHandshakeRequest

FirstKind(s, m) ==
    IF first[s] # "none" THEN first[s]
    ELSE IF m.Type = MsgTypeHandshakeRequest THEN "hs" ELSE "other"

\* the pump of session s reads message m and hands it to HandleMessage
Dispatch(s, m) ==
    /\ pc[s] = "ready"
    /\ Deliverable(transport, m)
    /\ first' = [first EXCEPT ![s] = FirstKind(s, m)]

\* the handler of message m of session s returns r: the pump goes on to write
\* a frame and to the next read after nil
Return(s, m, r) ==
    /\ resp' = [resp EXCEPT ![s] = IF r.frame = NoFrame THEN NoResp ELSE r]
    /\ cur' = [cur EXCEPT ![s] = IF r.frame = NoFrame THEN NoIn ELSE m]
    /\ pc' = [pc EXCEPT ![s] = IF r.frame = NoFrame THEN "ready" ELSE "write"]

\* the events of request id other than a non-final request chunk end scenario S3
EndS3(id) == [stage EXCEPT ![id] = 0]

\* runUDS accepts a connection, runReverse dials one (one at a time), the
\* gRPC server starts a ProcessStream
Connect(s) ==
    /\ pc[s] = "closed"
    /\ transport = "reverse" => \A t \in Sessions \ {s} : pc[t] = "closed"
    /\ pc' = [pc EXCEPT ![s] = IF transport = "uds" THEN "handshake" ELSE "ready"]
    /\ first' = [first EXCEPT ![s] = "none"]
    /\ rejected' = [rejected EXCEPT ![s] = FALSE]
    /\ UNCHANGED <<handlerVars, configVars, cur, resp, histVars, nonSessionVars>>

\* performHandshake up to its write: rd is what ReadMessageV2 gave ("msg",
\* "eof" for a nil message, "err")
performHandshake(s, rd, m) ==
    /\ pc[s] = "handshake"
    /\ IF rd = "msg" THEN Deliverable(transport, m) ELSE m = NoIn
    /\ first' = [first EXCEPT ![s] = IF rd = "msg" THEN FirstKind(s, m) ELSE @]
    /\ IF rd # "msg" \/ ~HandshakeGate(m)
       THEN /\ pc' = [pc EXCEPT ![s] = "closed"]
            /\ UNCHANGED <<cur, resp>>
       ELSE /\ cur' = [cur EXCEPT ![s] = m]
            /\ resp' = [resp EXCEPT ![s] =
                          Resp(handleHandshake(m), FALSE, FALSE, FALSE, NoObs)]
            /\ pc' = [pc EXCEPT ![s] = "write"]
    /\ UNCHANGED <<handlerVars, configVars, rejected, histVars, nonSessionVars>>

\* the pump's read returns EOF, a nil message or an error: OnStreamClosed
StreamEnd(s) ==
    /\ pc[s] = "ready"
    /\ pc' = [pc EXCEPT ![s] = "closed"]
    /\ UNCHANGED <<handlerVars, configVars, cur, resp, first, rejected, histVars, nonSessionVars>>

IsVersionReject(f) ==
    f.Type = MsgTypeHandshakeResponse /\ f.Error = "unsupported protocol version"

\* the stage of scenario S3 for the id of frame f once the reply f to m went out
StageAfterWrite(m, f, wok) ==
    IF f.RequestID \notin Ids THEN stage
    ELSE [stage EXCEPT ![f.RequestID] =
            IF ~wok THEN 0
            ELSE IF m.Type = MsgTypeRequestHeaders THEN 1
            ELSE IF /\ m.Type = MsgTypeRequestBodyChunk
                    /\ ~m.IsLast
                    /\ f.Decision = "needs_more"
                    /\ @ = 1
                 THEN 2
            ELSE 0]

\* WriteMessageV2 (SendMsg) of the response in performHandshake and in the
\* pumps: a failed write ends the session
Write(s, wok) ==
    /\ pc[s] = "write"
    /\ pc' = [pc EXCEPT ![s] = IF wok THEN "ready" ELSE "closed"]
    /\ cur' = [cur EXCEPT ![s] = NoIn]
    /\ resp' = [resp EXCEPT ![s] = NoResp]
    /\ rejected' = [rejected EXCEPT ![s] = @ \/ (wok /\ IsVersionReject(resp[s].frame))]
    /\ termSeen' = IF wok /\ IsTerminal(resp[s].frame) /\ resp[s].frame.RequestID \in Ids
                   THEN [termSeen EXCEPT ![resp[s].frame.RequestID] = TRUE]
                   ELSE termSeen
    /\ blockSeen' = IF wok /\ IsBlock(resp[s].frame) /\ resp[s].frame.RequestID \in Ids
                    THEN [blockSeen EXCEPT ![resp[s].frame.RequestID] = TRUE]
                    ELSE blockSeen
    /\ stage' = StageAfterWrite(cur[s], resp[s].frame, wok)
    /\ UNCHANGED <<handlerVars, configVars, first, cancelRecv, expect, rexpect, nonSessionVars>>

\* HandleMessage, case MsgTypeHandshakeRequest, from a pump
HandleHandshake(s, m) ==
    /\ m \in HandshakeMsgs
    /\ Dispatch(s, m)
    /\ Return(s, m, Resp(handleHandshake(m), FALSE, FALSE, FALSE, NoObs))
    /\ UNCHANGED <<handlerVars, configVars, rejected, histVars, nonSessionVars>>

\* handleRequestHeaders calling IncrementActive before it parses the payload,
\* with the DecrementActive deferred after the parse
RequestHeadersBegin_CountFirst(s, m) ==
    /\ m \in RequestHeadersMsgs
    /\ Dispatch(s, m)
    /\ IF ~m.parseOK
       THEN /\ Return(s, m, Resp(buildAllowDecision(0), FALSE, FALSE, FALSE, NoObs))
            /\ requestsActive' = U32Inc(requestsActive)
            /\ UNCHANGED <<cancelFuncs, ctxDone, decidedVars, cancelRecv, stage>>
       ELSE /\ cancelFuncs' = MapPut(cancelFuncs, m.RequestID, s)
            /\ ctxDone' = [ctxDone EXCEPT ![s] = FALSE]
            /\ pc' = [pc EXCEPT ![s] = "h2"]
            /\ cur' = [cur EXCEPT ![s] = m]
            /\ termSeen' = [termSeen EXCEPT ![m.RequestID] = FALSE]
            /\ blockSeen' = [blockSeen EXCEPT ![m.RequestID] = FALSE]
            /\ cancelRecv' = [cancelRecv EXCEPT ![m.RequestID] = "no"]
            /\ stage' = EndS3(m.RequestID)
            /\ requestsActive' = U32Inc(requestsActive)
            /\ UNCHANGED resp
    /\ UNCHANGED <<registryVars, configVars, rejected, expect, rexpect,
                   nonSessionActiveVars>>

\* handleRequestHeaders up to the registration of the cancel handle: a payload
\* that does not parse is answered at once, before IncrementActive
RequestHeadersBegin(s, m) ==
    /\ m \in RequestHeadersMsgs
    /\ Dispatch(s, m)
    /\ IF ~m.parseOK
       THEN /\ Return(s, m, Resp(buildAllowDecision(0), FALSE, FALSE, FALSE, NoObs))
            /\ UNCHANGED <<cancelFuncs, ctxDone, decidedVars, cancelRecv, stage,
                           requestsActive>>
       ELSE /\ cancelFuncs' = MapPut(cancelFuncs, m.RequestID, s)
            /\ ctxDone' = [ctxDone EXCEPT ![s] = FALSE]
            /\ pc' = [pc EXCEPT ![s] = "h2"]
            /\ cur' = [cur EXCEPT ![s] = m]
            /\ termSeen' = [termSeen EXCEPT ![m.RequestID] = FALSE]
            /\ blockSeen' = [blockSeen EXCEPT ![m.RequestID] = FALSE]
            /\ cancelRecv' = [cancelRecv EXCEPT ![m.RequestID] = "no"]
            /\ stage' = EndS3(m.RequestID)
            /\ requestsActive' = U32Inc(requestsActive)
            /\ UNCHANGED resp
    /\ UNCHANGED <<registryVars, configVars, rejected, expect, rexpect,
                   nonSessionActiveVars>>

\* handleRequestHeaders: the request is cached and OnRequest is called (the
\* cached *Request is named by the session whose RequestHeaders built it)
RequestHeadersCache(s) ==
    /\ pc[s] = "h2"
    /\ requests' = MapPut(requests, cur[s].RequestID, s)
    /\ requestBodies' = MapPut(requestBodies, cur[s].RequestID, <<>>)
    /\ expect' = [expect EXCEPT ![cur[s].RequestID] = Clean(<<>>)]
    /\ pc' = [pc EXCEPT ![s] = "cbRequest"]
    /\ UNCHANGED <<responseBodies, responseEvents, cancelFuncs, ctxDone, configVars,
                   cur, resp, first, rejected, decidedVars, cancelRecv, stage, rexpect,
                   nonSessionVars>>

\* the deferred DecrementActive of handleRequestHeaders
ActiveAfterReturn == IF requestsActive # U32Zero THEN U32Dec(requestsActive) ELSE requestsActive

\* OnRequest returns decision d: the handler returns the Decision and its
\* deferred calls drop the cancel handle of the id and lower requestsActive
\* (the counters RecordRequest raises grow with every request and are left to
\* DispatchRequestHeaders)
RequestHeadersReturn(s, d) ==
    /\ pc[s] = "cbRequest"
    /\ cancelFuncs' = MapDel(cancelFuncs, cur[s].RequestID)
    /\ ctxDone' = [ctxDone EXCEPT ![s] = FALSE]
    /\ requestsActive' = ActiveAfterReturn
    /\ Return(s, cur[s],
              Resp(buildDecisionMessage(cur[s].RequestID, d), TRUE, FALSE, FALSE, NoObs))
    /\ UNCHANGED <<registryVars, configVars, first, rejected, histVars,
                   nonSessionActiveVars>>

RECURSIVE SumLen(_, _)
SumLen(f, S) ==
    IF S = {} THEN 0
    ELSE LET k == CHOOSE x \in S : TRUE IN Len(f[k]) + SumLen(f, S \ {k})

BufferedBytes ==
    SumLen(requestBodies, DOMAIN requestBodies)
      + SumLen(responseBodies, DOMAIN responseBodies)

AppendChunk_Prepend(body, data) == data \o body

\* append(h.requestBodies[id], data...)
AppendChunk(body, data) == body \o data

\* what a chunk handler saw of message m, e being expect[id] or rexpect[id]
ChunkObs(m, e, body, cb) ==
    [clean |-> e.clean, expected |-> e.body \o Base64Decode(m.Data).bytes,
     cb |-> cb, cbBody |-> IF cb THEN body ELSE <<>>]

\* handleRequestBodyChunk up to the call of OnRequestBody, or all of it when
\* the callback is not called
RequestBodyChunk(s, m) ==
    /\ m \in RequestBodyChunkMsgs
    /\ Dispatch(s, m)
    /\ LET id == m.RequestID
           dec == Base64Decode(m.Data)
           body == AppendChunk(BodyOf(requestBodies, id), dec.bytes)
           request == Has(requests, id)
       IN  IF ~m.parseOK
           THEN /\ Return(s, m, Resp(buildAllowDecision(0), FALSE, FALSE, FALSE, NoObs))
                /\ UNCHANGED <<requestBodies, stage, expect>>
           ELSE IF ~dec.ok
           THEN /\ Return(s, m, Resp(buildAllowDecision(id), request, FALSE, FALSE, NoObs))
                /\ stage' = EndS3(id)
                /\ expect' = [expect EXCEPT ![id] = Dirty]
                /\ UNCHANGED requestBodies
           ELSE /\ BufferedBytes + Len(dec.bytes) <= MaxBytes
                /\ requestBodies' = MapPut(requestBodies, id, body)
                /\ IF m.IsLast /\ request
                   THEN /\ pc' = [pc EXCEPT ![s] = "cbRequestBody"]
                        /\ cur' = [cur EXCEPT ![s] = m]
                        /\ resp' = [resp EXCEPT ![s] =
                                      Resp(NoFrame, request, FALSE, FALSE,
                                           ChunkObs(m, expect[id], body, TRUE))]
                        /\ expect' = [expect EXCEPT ![id] = Dirty]
                        /\ stage' = EndS3(id)
                   ELSE /\ Return(s, m, Resp(buildNeedsMoreDecision(id), request, FALSE, FALSE,
                                             ChunkObs(m, expect[id], body, FALSE)))
                        /\ expect' = [expect EXCEPT ![id] =
                                        IF @.clean /\ ~m.IsLast
                                        THEN Clean(@.body \o dec.bytes) ELSE Dirty]
                        /\ stage' = IF m.IsLast THEN EndS3(id) ELSE stage
    /\ UNCHANGED <<requests, responseBodies, responseEvents, cancelFuncs, ctxDone,
                   configVars, rejected, decidedVars, cancelRecv, rexpect, nonSessionVars>>

\* OnRequestBody returns decision d and the handler returns the Decision
RequestBodyReturn(s, d) ==
    /\ pc[s] = "cbRequestBody"
    /\ Return(s, cur[s], [resp[s] EXCEPT !.frame = buildDecisionMessage(cur[s].RequestID, d)])
    /\ UNCHANGED <<handlerVars, configVars, first, rejected, histVars, nonSessionVars>>

\* handleResponseHeaders up to the lookup of the cached request
ResponseHeaders(s, m) ==
    /\ m \in ResponseHeadersMsgs
    /\ Dispatch(s, m)
    /\ IF ~m.parseOK
       THEN /\ Return(s, m, Resp(buildAllowDecision(0), FALSE, FALSE, FALSE, NoObs))
            /\ UNCHANGED stage
       ELSE IF ~Has(requests, m.RequestID)
       THEN /\ Return(s, m, Resp(buildAllowDecision(m.RequestID), FALSE, FALSE, FALSE, NoObs))
            /\ stage' = EndS3(m.RequestID)
       ELSE /\ pc' = [pc EXCEPT ![s] = "rh2"]
            /\ cur' = [cur EXCEPT ![s] = m]
            /\ stage' = EndS3(m.RequestID)
            /\ UNCHANGED resp
    /\ UNCHANGED <<handlerVars, configVars, rejected, decidedVars, cancelRecv, expect, rexpect,
                   nonSessionVars>>

\* handleResponseHeaders: the response headers are cached and OnResponse is called
ResponseHeadersCache(s) ==
    /\ pc[s] = "rh2"
    /\ responseEvents' = MapPut(responseEvents, cur[s].RequestID, "resp")
    /\ responseBodies' = MapPut(responseBodies, cur[s].RequestID, <<>>)
    /\ rexpect' = [rexpect EXCEPT ![cur[s].RequestID] = Clean(<<>>)]
    /\ pc' = [pc EXCEPT ![s] = "cbResponse"]
    /\ UNCHANGED <<requests, requestBodies, cancelFuncs, ctxDone, configVars, cur, resp,
                   first, rejected, decidedVars, cancelRecv, stage, expect, nonSessionVars>>

\* OnResponse returns decision d and the handler returns the Decision
ResponseHeadersReturn(s, d) ==
    /\ pc[s] = "cbResponse"
    /\ Return(s, cur[s],
              Resp(buildDecisionMessage(cur[s].RequestID, d), TRUE, TRUE, FALSE, NoObs))
    /\ UNCHANGED <<handlerVars, configVars, first, rejected, histVars, nonSessionVars>>

\* handleResponseBodyChunk up to the call of OnResponseBody, or all of it when
\* the callback is not called
ResponseBodyChunk(s, m) ==
    /\ m \in ResponseBodyChunkMsgs
    /\ Dispatch(s, m)
    /\ LET id == m.RequestID
           dec == Base64Decode(m.Data)
           body == AppendChunk(BodyOf(responseBodies, id), dec.bytes)
           request == Has(requests, id)
           responseEvent == Has(responseEvents, id)
       IN  IF ~m.parseOK
           THEN /\ Return(s, m, Resp(buildAllowDecision(0), FALSE, FALSE, FALSE, NoObs))
                /\ UNCHANGED <<responseBodies, stage, rexpect>>
           ELSE IF ~dec.ok
           THEN /\ Return(s, m, Resp(buildAllowDecision(id), request, responseEvent, FALSE,
                                     NoObs))
                /\ stage' = EndS3(id)
                /\ rexpect' = [rexpect EXCEPT ![id] = Dirty]
                /\ UNCHANGED responseBodies
           ELSE /\ BufferedBytes + Len(dec.bytes) <= MaxBytes
                /\ responseBodies' = MapPut(responseBodies, id, body)
                /\ stage' = EndS3(id)
                /\ IF m.IsLast /\ request /\ responseEvent
                   THEN /\ pc' = [pc EXCEPT ![s] = "cbResponseBody"]
                        /\ cur' = [cur EXCEPT ![s] = m]
                        /\ resp' = [resp EXCEPT ![s] =
                                      Resp(NoFrame, request, responseEvent, FALSE,
                                           ChunkObs(m, rexpect[id], body, TRUE))]
                        /\ rexpect' = [rexpect EXCEPT ![id] = Dirty]
                   ELSE /\ Return(s, m, Resp(buildNeedsMoreDecision(id), request,
                                             responseEvent, FALSE,
                                             ChunkObs(m, rexpect[id], body, FALSE)))
                        /\ rexpect' = [rexpect EXCEPT ![id] =
                                         IF @.clean /\ ~m.IsLast
                                         THEN Clean(@.body \o dec.bytes) ELSE Dirty]
    /\ UNCHANGED <<requests, requestBodies, responseEvents, cancelFuncs, ctxDone,
                   configVars, rejected, decidedVars, cancelRecv, expect, nonSessionVars>>

\* OnResponseBody returns decision d and the handler returns the Decision
ResponseBodyReturn(s, d) ==
    /\ pc[s] = "cbResponseBody"
    /\ Return(s, cur[s], [resp[s] EXCEPT !.frame = buildDecisionMessage(cur[s].RequestID, d)])
    /\ UNCHANGED <<handlerVars, configVars, first, rejected, histVars, nonSessionVars>>

\* handleCancelRequest up to the release of cancelMu: the handle, if one is
\* registered, is fired and removed
CancelRequestFire(s, m) ==
    /\ m \in CancelRequestMsgs
    /\ Dispatch(s, m)
    /\ IF ~m.parseOK
       THEN /\ Return(s, m, NoResp)
            /\ UNCHANGED <<cancelFuncs, ctxDone, cancelRecv>>
       ELSE /\ ctxDone' = IF Has(cancelFuncs, m.RequestID)
                          THEN [ctxDone EXCEPT ![cancelFuncs[m.RequestID]] = TRUE]
                          ELSE ctxDone
            /\ cancelFuncs' = MapDel(cancelFuncs, m.RequestID)
            /\ cancelRecv' = [cancelRecv EXCEPT ![m.RequestID] = "recv"]
            /\ pc' = [pc EXCEPT ![s] = "c2"]
            /\ cur' = [cur EXCEPT ![s] = m]
            /\ resp' = [resp EXCEPT ![s] =
                          Resp(NoFrame, FALSE, FALSE, Has(cancelFuncs, m.RequestID), NoObs)]
    /\ UNCHANGED <<registryVars, configVars, rejected, decidedVars, stage, expect, rexpect,
                   nonSessionVars>>

\* handleCancelRequest: the cached state is deleted, OnCancel is called and
\* nil is returned
CancelRequestCleanup(s) ==
    /\ pc[s] = "c2"
    /\ requests' = MapDel(requests, cur[s].RequestID)
    /\ requestBodies' = MapDel(requestBodies, cur[s].RequestID)
    /\ responseBodies' = MapDel(responseBodies, cur[s].RequestID)
    /\ responseEvents' = MapDel(responseEvents, cur[s].RequestID)
    /\ cancelRecv' = [cancelRecv EXCEPT ![cur[s].RequestID] = "done"]
    /\ expect' = [expect EXCEPT ![cur[s].RequestID] = Dirty]
    /\ rexpect' = [rexpect EXCEPT ![cur[s].RequestID] = Dirty]
    /\ stage' = EndS3(cur[s].RequestID)
    /\ Return(s, cur[s], NoResp)
    /\ UNCHANGED <<cancelFuncs, ctxDone, configVars, first, rejected, decidedVars, nonSessionVars>>

\* handleCancelAll up to the release of cancelMu: every handle is fired,
\* OnCancel is called for its id, and the handles are dropped
CancelAllFire(s, m) ==
    /\ m.Type = MsgTypeCancelAll
    /\ Dispatch(s, m)
    /\ ctxDone' = [t \in Sessions |->
                     ctxDone[t] \/ \E id \in DOMAIN cancelFuncs : cancelFuncs[id] = t]
    /\ cancelFuncs' = EmptyMap
    /\ stage' = [id \in Ids |-> 0]
    /\ pc' = [pc EXCEPT ![s] = "ca2"]
    /\ cur' = [cur EXCEPT ![s] = m]
    /\ resp' = [resp EXCEPT ![s] = [NoResp EXCEPT !.cancelled = DOMAIN cancelFuncs]]
    /\ UNCHANGED <<registryVars, configVars, rejected, decidedVars, cancelRecv, expect,
                   rexpect, nonSessionVars>>

\* handleCancelAll: the four maps are replaced by empty ones, nil is returned
CancelAllCleanup(s) ==
    /\ pc[s] = "ca2"
    /\ requests' = EmptyMap
    /\ requestBodies' = EmptyMap
    /\ responseBodies' = EmptyMap
    /\ responseEvents' = EmptyMap
    /\ expect' = [id \in Ids |-> Dirty]
    /\ rexpect' = [id \in Ids |-> Dirty]
    /\ Return(s, cur[s], NoResp)
    /\ UNCHANGED <<cancelFuncs, ctxDone, configVars, first, rejected, decidedVars, cancelRecv,
                   stage, nonSessionVars>>

\* HandleMessage, case MsgTypePing
Ping(s, m) ==
    /\ m \in PingMsgs
    /\ Dispatch(s, m)
    /\ \E now \in Nows :
          Return(s, m, Resp(handlePing(m, now), FALSE, FALSE, FALSE, NoObs))
    /\ UNCHANGED <<handlerVars, configVars, rejected, histVars, nonSessionVars>>

\* handleHealthRequest up to the call of the agent's HealthCheck
HealthRequest(s, m) ==
    /\ m.Type = MsgTypeHealthRequest
    /\ Dispatch(s, m)
    /\ pc' = [pc EXCEPT ![s] = "cbControl"]
    /\ cur' = [cur EXCEPT ![s] = m]
    /\ UNCHANGED <<handlerVars, configVars, resp, rejected, histVars, nonSessionVars>>

\* handleMetricsRequest up to the call of the agent's Metrics
MetricsRequest(s, m) ==
    /\ m.Type = MsgTypeMetricsRequest
    /\ Dispatch(s, m)
    /\ pc' = [pc EXCEPT ![s] = "cbControl"]
    /\ cur' = [cur EXCEPT ![s] = m]
    /\ UNCHANGED <<handlerVars, configVars, resp, rejected, histVars, nonSessionVars>>

\* HealthCheck or Metrics returns and NewV2Message marshals the result: the
\* handler returns the response, or the error of json.Marshal when the
\* details or custom metrics hold a value it cannot encode (the pump logs the
\* error and goes on to its next read)
ControlReturn(s, ok) ==
    /\ pc[s] = "cbControl"
    /\ Return(s, cur[s],
              IF ok
              THEN Resp(Frame(IF cur[s].Type = MsgTypeHealthRequest
                              THEN MsgTypeHealthResponse ELSE MsgTypeMetricsResponse,
                              0, "none", FALSE, ""),
                        FALSE, FALSE, FALSE, NoObs)
              ELSE NoResp)
    /\ UNCHANGED <<handlerVars, configVars, first, rejected, histVars, nonSessionVars>>

\* a policy callback returns a Decision that buildDecisionMessage cannot
\* marshal (a NaN confidence, a metadata value json cannot encode): the
\* handler returns the error, after its deferred calls, and the pump logs it
\* and goes on to its next read
buildDecisionMessageError(s) ==
    /\ pc[s] \in {"cbRequest", "cbRequestBody", "cbResponse", "cbResponseBody"}
    /\ cancelFuncs' = IF pc[s] = "cbRequest"
                      THEN MapDel(cancelFuncs, cur[s].RequestID) ELSE cancelFuncs
    /\ ctxDone' = IF pc[s] = "cbRequest" THEN [ctxDone EXCEPT ![s] = FALSE] ELSE ctxDone
    /\ requestsActive' = IF pc[s] = "cbRequest" THEN ActiveAfterReturn ELSE requestsActive
    /\ Return(s, cur[s], NoResp)
    /\ UNCHANGED <<registryVars, configVars, first, rejected, histVars,
                   nonSessionActiveVars>>

\* a default case that asks for more data
UnknownMessage_NeedsMore(s, m) ==
    /\ m.Type \notin HandledTypes
    /\ Dispatch(s, m)
    /\ Return(s, m, Resp(buildNeedsMoreDecision(0), FALSE, FALSE, FALSE, NoObs))
    /\ UNCHANGED <<handlerVars, configVars, rejected, histVars, nonSessionVars>>

\* HandleMessage, default case: a tag that is none of its cases
UnknownMessage(s, m) ==
    /\ m.Type \notin HandledTypes
    /\ Dispatch(s, m)
    /\ Return(s, m, Resp(buildAllowDecision(0), FALSE, FALSE, FALSE, NoObs))
    /\ UNCHANGED <<handlerVars, configVars, rejected, histVars, nonSessionVars>>

\* processStream: a first message that is a configure event, a
\* request_complete event or does not convert is consumed without reaching
\* HandleMessage (a later one leaves the state as it is)
GRPCSkip(s) ==
    /\ pc[s] = "ready"
    /\ transport = "grpc"
    /\ first[s] = "none"
    /\ first' = [first EXCEPT ![s] = "other"]
    /\ UNCHANGED <<handlerVars, configVars, pc, cur, resp, rejected, histVars, nonSessionVars>>

\* the frames the proxy sends in the runs of Spec
SpecMsgs == {m \in InMsgs : m.RequestID \in {0} \cup SpecIds}

Init ==
    /\ SessionInit
    /\ CodecInit
    /\ HealthIdle
    /\ MetricsIdle
    /\ HashIdle
    /\ BridgeIdle
    /\ RunnerIdle

Next ==
    \/ \E s \in SpecSessions : Connect(s)
    \/ \E s \in SpecSessions, rd \in {"msg", "eof", "err"}, m \in SpecMsgs \cup {NoIn} :
          performHandshake(s, rd, m)
    \/ \E s \in SpecSessions : StreamEnd(s)
    \/ \E s \in SpecSessions, wok \in BOOLEAN : Write(s, wok)
    \/ \E s \in SpecSessions, m \in SpecMsgs : HandleHandshake(s, m)
    \/ \E s \in SpecSessions, m \in SpecMsgs : RequestHeadersBegin(s, m)
    \/ \E s \in SpecSessions : RequestHeadersCache(s)
    \/ \E s \in SpecSessions, d \in CallbackDecisions : RequestHeadersReturn(s, d)
    \/ \E s \in SpecSessions, m \in SpecMsgs : RequestBodyChunk(s, m)
    \/ \E s \in SpecSessions, d \in CallbackDecisions : RequestBodyReturn(s, d)
    \/ \E s \in SpecSessions, m \in SpecMsgs : ResponseHeaders(s, m)
    \/ \E s \in SpecSessions : ResponseHeadersCache(s)
    \/ \E s \in SpecSessions, d \in CallbackDecisions : ResponseHeadersReturn(s, d)
    \/ \E s \in SpecSessions, m \in SpecMsgs : ResponseBodyChunk(s, m)
    \/ \E s \in SpecSessions, d \in CallbackDecisions : ResponseBodyReturn(s, d)
    \/ \E s \in SpecSessions, m \in SpecMsgs : CancelRequestFire(s, m)
    \/ \E s \in SpecSessions : CancelRequestCleanup(s)
    \/ \E s \in SpecSessions, m \in SpecMsgs : CancelAllFire(s, m)
    \/ \E s \in SpecSessions : CancelAllCleanup(s)
    \/ \E s \in SpecSessions, m \in SpecMsgs : Ping(s, m)
    \/ \E s \in SpecSessions, m \in SpecMsgs : HealthRequest(s, m)
    \/ \E s \in SpecSessions, m \in SpecMsgs : MetricsRequest(s, m)
    \/ \E s \in SpecSessions, ok \in BOOLEAN : ControlReturn(s, ok)
    \/ \E s \in SpecSessions : buildDecisionMessageError(s)
    \/ \E s \in SpecSessions, m \in SpecMsgs : UnknownMessage(s, m)
    \/ \E s \in SpecSessions : GRPCSkip(s)

Spec == Init /\ [][Next]_vars

\* two proxies connected to one runner, each sending request headers and
\* cancels for the same request id
SharedMsgs ==
    {m \in SpecMsgs : m.parseOK /\ m.Type \in {MsgTypeHandshakeRequest,
                                                MsgTypeRequestHeaders,
                                                MsgTypeCancelRequest,
                                                MsgTypeCancelAll}}

SharedNext ==
    \/ \E s \in Sessions : Connect(s)
    \/ \E s \in Sessions, m \in SharedMsgs : performHandshake(s, "msg", m)
    \/ \E s \in Sessions : StreamEnd(s)
    \/ \E s \in Sessions : Write(s, TRUE)
    \/ \E s \in Sessions, m \in SharedMsgs : RequestHeadersBegin(s, m)
    \/ \E s \in Sessions : RequestHeadersCache(s)
    \/ \E s \in Sessions, d \in CallbackDecisions : RequestHeadersReturn(s, d)
    \/ \E s \in Sessions, m \in SharedMsgs : CancelRequestFire(s, m)
    \/ \E s \in Sessions : CancelRequestCleanup(s)
    \/ \E s \in Sessions, m \in SharedMsgs : CancelAllFire(s, m)
    \/ \E s \in Sessions : CancelAllCleanup(s)

SpecShared == Init /\ [][SharedNext]_vars

\* as Init, for an agent with any of the capability sets
CapabilitiesInit ==
    /\ SessionStart
    /\ capabilities \in CapabilitySets
    /\ CodecInit
    /\ HealthIdle
    /\ MetricsIdle
    /\ HashIdle
    /\ BridgeIdle
    /\ RunnerIdle

SpecCapabilities == CapabilitiesInit /\ [][Next]_vars

SpecCodec == Init /\ [][CodecNext]_vars

SpecHealth == Init /\ [][HealthNext]_vars

\* as Init, but the collector may have seen many IncrementActive calls
MetricsInit ==
    /\ SessionInit
    /\ CodecInit
    /\ HealthIdle
    /\ HashIdle
    /\ BridgeIdle
    /\ RunnerIdle
    /\ requestsTotal = 0
    /\ requestsActive \in ActiveStarts
    /\ requestsAllowed = 0
    /\ requestsBlocked = 0
    /\ requestsErrored = 0
    /\ latencies = <<>>
    /\ MetricsHistoryIdle

SpecMetrics == MetricsInit /\ [][MetricsNext]_vars

SpecHash == Init /\ [][HashNext]_vars

SpecRunner == Init /\ [][RunnerNext]_vars

FairSpecRunner == SpecRunner /\ RunnerFairness

SpecDispatch == Init /\ [][DispatchNext]_vars

SpecReport == Init /\ [][ReportNext]_vars

SpecBridge == Init /\ [][BridgeNext]_vars
(***************************************************************************)
(* Properties of the frame codec, checked under SpecCodec.                 *)
(***************************************************************************)
\* a codec run wrote cmsg, a message with a non-empty payload that fits a
\* frame, and read the bytes back
RoundTripRun ==
    /\ cpc = "read"
    /\ cfrom = "written"
    /\ ~cmsg.Payload.isNil
    /\ BLen(cmsg.Payload.bytes) > 0
    /\ 1 + BLen(cmsg.Payload.bytes) <= MaxMessageSizeV2

\* the length the first four bytes of the reader declare
Declared == BigEndianUint32(BTake(cwire, 4))

\* C8 as stated: ReadMessageV2 of the bytes WriteMessageV2 produced for a
\* message with a non-empty payload of at most 16 MiB - 1 bytes returns a
\* message equal to it in type tag, request id and payload, and the length
\* prefix is 1 + |payload|.
C8_RoundTripIdentity ==
    RoundTripRun =>
        /\ cres.err = "nil"
        /\ cres.msg = cmsg
        /\ Declared = 1 + BLen(cmsg.Payload.bytes)

\* C8 as the code has it: the message read back has the type tag and the
\* payload of the message written, byte for byte, nothing is left in the
\* reader and the length prefix is 1 + |payload|; the request id is not part
\* of the frame and reads back as 0.
C8_RoundTrip ==
    RoundTripRun =>
        /\ cres.err = "nil"
        /\ ~cres.msg.isNil
        /\ cres.msg.Type = cmsg.Type
        /\ cres.msg.Payload = cmsg.Payload
        /\ cres.msg.RequestID = 0
        /\ cres.rest = <<>>
        /\ Declared = 1 + BLen(cmsg.Payload.bytes)

\* a message with a request id and the largest payload a frame takes went
\* through WriteMessageV2 and ReadMessageV2
C8_Witness ==
    /\ RoundTripRun
    /\ cmsg.RequestID = 42
    /\ BLen(cmsg.Payload.bytes) = MaxMessageSizeV2 - 1
    /\ cres.msg.Payload = cmsg.Payload

\* C9: WriteMessageV2 fails, writing nothing, for a message of total length
\* 1 + |payload| above 16 MiB; ReadMessageV2 fails, returning no message, for
\* a frame whose declared length is above 16 MiB or below 1.
C9_SizeLimits ==
    /\ (/\ cpc = "written"
        /\ 1 + BLen(IF cmsg.Payload.isNil THEN EmptyObject ELSE cmsg.Payload.bytes)
             > MaxMessageSizeV2)
          => cwerr # "nil" /\ cwire = <<>>
    /\ (/\ cpc = "read"
        /\ BLen(cwire) >= 4
        /\ (Declared > MaxMessageSizeV2 \/ Declared < 1))
          => cres.err # "nil" /\ cres.msg.isNil

\* a frame declaring 16 MiB + 1 bytes was refused by the reader
C9_Witness ==
    /\ cpc = "read"
    /\ cfrom = "forged"
    /\ Declared = MaxMessageSizeV2 + 1
    /\ cres.err = "message size exceeds maximum"
    /\ cres.msg.isNil

\* C10: on a reader with no bytes ReadMessageV2 returns no message and no
\* error; on a reader that ends inside the length prefix, or after a valid
\* prefix but before the type byte and the whole payload, it returns an
\* error and no message.
C10_EndOfStream ==
    cpc = "read" =>
        /\ BLen(cwire) = 0 => cres.msg.isNil /\ cres.err = "nil"
        /\ BLen(cwire) \in 1..3 => cres.msg.isNil /\ cres.err # "nil"
        /\ (/\ BLen(cwire) >= 4
            /\ Declared \in 1..MaxMessageSizeV2
            /\ BLen(cwire) < 4 + Declared)
              => cres.msg.isNil /\ cres.err # "nil"

\* a written frame was cut inside its payload and the read failed
C10_Witness ==
    /\ cpc = "read"
    /\ cfrom = "cut"
    /\ BLen(cwire) > 5
    /\ cres.err = "failed to read message payload"

(***************************************************************************)
(* Properties of the session handler and the pumps, checked under Spec.    *)
(***************************************************************************)
EventTypes ==
    {MsgTypeRequestHeaders, MsgTypeRequestBodyChunk, MsgTypeResponseHeaders,
     MsgTypeResponseBodyChunk}

\* session s is about to write the reply to a well-formed request event
RepliesToEvent(s) ==
    /\ pc[s] = "write"
    /\ cur[s].Type \in EventTypes
    /\ cur[s].parseOK

TerminalReplyDue(m, hadReq, hadResp) ==
    \/ m.Type \in {MsgTypeRequestHeaders, MsgTypeResponseHeaders}
    \/ ~Base64Decode(m.Data).ok
    \/ m.Type = MsgTypeRequestBodyChunk /\ m.IsLast /\ hadReq
    \/ m.Type = MsgTypeResponseBodyChunk /\ m.IsLast /\ hadReq /\ hadResp

C2_NoFrameAfterCancel ==
    \A s \in Sessions :
        (pc[s] = "write" /\ resp[s].frame.RequestID \in Ids)
            => cancelRecv[resp[s].frame.RequestID] = "no"

\* C3: from the return of handleCancelRequest(id) until the next
\* RequestHeaders for id, none of the five maps of the handler has the key id.
C3_RegistryEmptyAfterCancel ==
    \A id \in Ids :
        cancelRecv[id] = "done" =>
            /\ ~Has(requests, id)
            /\ ~Has(requestBodies, id)
            /\ ~Has(responseBodies, id)
            /\ ~Has(responseEvents, id)
            /\ ~Has(cancelFuncs, id)

\* C4: in scenario S3 (RequestHeaders answered, one non-final request chunk
\* answered needs_more, then CancelRequest) the cancel handler finds a cancel
\* handle for the id and fires it.
C4_CancelFindsHandle ==
    \A s \in Sessions :
        (pc[s] = "c2" /\ stage[cur[s].RequestID] = 2) => resp[s].found

BodyChunkTypes == {MsgTypeRequestBodyChunk, MsgTypeResponseBodyChunk}

\* C5: when the chunks of an id have come in order since its headers, each
\* of them decodable and none but the present one final, a non-final chunk is
\* answered with needs_more for the id and no body callback, and the final
\* chunk calls the body callback, once, with the concatenation of the decoded
\* chunks in delivery order.
C5_BodyInOrder ==
    \A s \in Sessions :
        (cur[s].Type \in BodyChunkTypes /\ resp[s].obs.clean) =>
            IF cur[s].IsLast
            THEN /\ resp[s].obs.cb
                 /\ resp[s].obs.cbBody = resp[s].obs.expected
                 /\ \/ pc[s] = (IF cur[s].Type = MsgTypeRequestBodyChunk
                                THEN "cbRequestBody" ELSE "cbResponseBody")
                    \/ pc[s] = "write" /\ IsTerminal(resp[s].frame)
            ELSE /\ ~resp[s].obs.cb
                 /\ pc[s] = "write"
                 /\ resp[s].frame = buildNeedsMoreDecision(cur[s].RequestID)

\* OnRequestBody runs on the second of two chunks with different bytes
C5_Witness ==
    \E s \in Sessions :
        /\ pc[s] = "cbRequestBody"
        /\ resp[s].obs.clean
        /\ Len(resp[s].obs.cbBody) = 2
        /\ resp[s].obs.cbBody[1] # resp[s].obs.cbBody[2]

C7_VersionReject ==
    \A s \in Sessions :
        /\ (/\ pc[s] = "write"
            /\ cur[s].Type = MsgTypeHandshakeRequest
            /\ cur[s].parseOK
            /\ cur[s].ProtocolVersion # ProtocolVersionV2)
              => resp[s].frame =
                   Frame(MsgTypeHandshakeResponse, 0, "none", FALSE,
                         "unsupported protocol version")
        /\ rejected[s] => pc[s] \in {"ready", "closed"}


(***************************************************************************)
(* Claims about keep-alive.                                                *)
(***************************************************************************)
\* C19: every Ping{timestamp = T} with a parseable payload that a session
\* receives is answered on that session by one Pong whose timestamp is T: the
\* handler returns that Pong to the pump, and the next thing the pump does is
\* write it, before it reads or answers any later inbound frame.
C19_PongAnswersPing ==
    [][\A s \in Sessions :
          /\ (cur'[s].Type = MsgTypePing /\ cur'[s] # cur[s]) =>
                /\ pc'[s] = "write"
                /\ resp'[s].frame.Type = MsgTypePong
                /\ cur'[s].parseOK => resp'[s].frame.Timestamp = cur'[s].Timestamp
          /\ (cur[s].Type = MsgTypePing /\ <<pc[s], cur[s], resp[s]>>' # <<pc[s], cur[s], resp[s]>>) =>
                /\ pc[s] = "write"
                /\ pc'[s] \in {"ready", "closed"}
                /\ cur'[s] = NoIn]_vars

\* a session that completed its handshake holds the Pong{2} for a Ping{2}
C19_Witness ==
    \E s \in Sessions :
        /\ first[s] = "hs"
        /\ cur[s].Type = MsgTypePing
        /\ cur[s].Timestamp = 2
        /\ pc[s] = "write"
        /\ resp[s].frame.Type = MsgTypePong
        /\ resp[s].frame.Timestamp = 2

(***************************************************************************)
(* Claims about the request registry.                                      *)
(***************************************************************************)
\* C22: the registry is private to a session: a cached request and a cancel
\* handle created by the events of one session are replaced or removed only
\* by a step of that session; CancelAll, CancelRequest(id) and
\* RequestHeaders(id) arriving on another, concurrent session leave them as
\* they are.
C22_RegistryPrivate ==
    [][\A id \in Ids :
          /\ Has(requests, id) =>
                \/ Has(requests', id) /\ requests'[id] = requests[id]
                \/ pc'[requests[id]] # pc[requests[id]]
          /\ Has(cancelFuncs, id) =>
                \/ Has(cancelFuncs', id) /\ cancelFuncs'[id] = cancelFuncs[id]
                \/ pc'[cancelFuncs[id]] # pc[cancelFuncs[id]]]_vars

\* one of the five maps of the handler has the key id
InRegistry(id) ==
    \/ Has(requests, id)
    \/ Has(requestBodies, id)
    \/ Has(responseBodies, id)
    \/ Has(responseEvents, id)
    \/ Has(cancelFuncs, id)

\* C23: the registry holds entries only for live requests of live sessions:
\* once a terminal Decision for id has been written, no map of the handler
\* has the key id, and no cached request outlives the session whose
\* RequestHeaders created it (end of stream, transport error, drain).
C23_RegistryOnlyLive ==
    \A id \in Ids :
        /\ termSeen[id] => ~InRegistry(id)
        /\ Has(requests, id) => pc[requests[id]] # "closed"

LateEventTypes ==
    {MsgTypeRequestBodyChunk, MsgTypeResponseHeaders, MsgTypeResponseBodyChunk}

\* C24: a RequestBodyChunk, ResponseHeaders or ResponseBodyChunk whose
\* request id has no cached request is answered with the Decision "allow"
\* (not needs_more) for that id, whether the chunk is final or not, and
\* without a policy callback.
C24_UnknownIdAllowed ==
    \A s \in Sessions :
        (/\ pc[s] = "write"
         /\ cur[s].Type \in LateEventTypes
         /\ cur[s].parseOK
         /\ ~resp[s].hadReq)
            => /\ resp[s].frame = buildAllowDecision(cur[s].RequestID)
               /\ ~resp[s].obs.cb

(***************************************************************************)
(* Claims about the dispatch of HandleMessage.                             *)
(***************************************************************************)
\* C25: a message whose type tag is none of the cases of the dispatch is
\* answered with the Decision "allow" for request id 0: no policy callback
\* is involved, the five maps of the handler stay as they are, both when the
\* message is handled and when the reply is written, and after the write the
\* session is ready for the next frame (a failed write closes it).
C25_UnknownTypeAllowed ==
    [][\A s \in Sessions :
          /\ (cur'[s] # cur[s] /\ cur'[s] # NoIn /\ cur'[s].Type \notin HandledTypes) =>
                /\ pc'[s] = "write"
                /\ resp'[s].frame = buildAllowDecision(0)
                /\ ~resp'[s].obs.cb
                /\ handlerVars' = handlerVars
          /\ (/\ cur[s] # NoIn
              /\ cur[s].Type \notin HandledTypes
              /\ <<pc[s], cur[s], resp[s]>>' # <<pc[s], cur[s], resp[s]>>) =>
                /\ pc[s] = "write"
                /\ pc'[s] \in {"ready", "closed"}
                /\ handlerVars' = handlerVars]_vars

\* a session that has a cached request is about to write the allow for a
\* frame of an unknown type
C25_Witness ==
    \E s \in Sessions :
        /\ pc[s] = "write"
        /\ cur[s].Type = UnknownType
        /\ resp[s].frame = buildAllowDecision(0)
        /\ Has(requests, 1)

CancelTypes == {MsgTypeCancelRequest, MsgTypeCancelAll}

\* C26: in a session pump CancelRequest and CancelAll never cause an
\* outbound frame (their handling ends with the pump ready for its next
\* read, nothing having been handed to the writer), and the handling of every
\* other dispatched message ends only with the write of its one frame, before
\* the next inbound frame is read.
C26_OneFramePerMessage ==
    [][\A s \in Sessions :
          /\ (cur'[s].Type \in CancelTypes) => pc'[s] \in {"c2", "ca2"}
          /\ (cur[s].Type \in CancelTypes /\ cur'[s] # cur[s]) =>
                /\ pc'[s] = "ready"
                /\ cur'[s] = NoIn
                /\ resp'[s] = NoResp
          /\ (cur[s] # NoIn /\ cur[s].Type \notin CancelTypes /\ cur'[s] # cur[s]) =>
                /\ pc[s] = "write"
                /\ resp[s].frame # NoFrame
                /\ cur'[s] = NoIn]_vars

\* C27: the dispatch consults the capabilities of the agent: a policy
\* callback runs only for an event kind whose handles flag is set (an event
\* of another kind is answered with a synthesised allow).
C27_CallbackOnlyIfAdvertised ==
    \A s \in Sessions :
        /\ pc[s] = "cbRequest" => capabilities.HandlesRequestHeaders
        /\ pc[s] = "cbRequestBody" => capabilities.HandlesRequestBody
        /\ pc[s] = "cbResponse" => capabilities.HandlesResponseHeaders
        /\ pc[s] = "cbResponseBody" => capabilities.HandlesResponseBody

\* the OnRequest callback of session s for request id is registered or running
InFlight(s, id) == pc[s] \in {"h2", "cbRequest"} /\ cur[s].RequestID = id

\* C28: when RequestHeaders(id) arrives while the callback of an earlier
\* RequestHeaders(id) is in flight, the step that registers the cancel handle
\* of the newer callback fires the handle of the earlier one, and the
\* completion of the earlier callback leaves the handle of the newer one
\* registered.
C28_DuplicateHeadersCancelPrior ==
    [][\A id \in Ids, s \in Sessions :
          /\ (/\ InFlight(s, id)
              /\ Has(cancelFuncs, id) /\ cancelFuncs[id] = s
              /\ Has(cancelFuncs', id) /\ cancelFuncs'[id] # s) => ctxDone'[s]
          /\ (/\ InFlight(s, id)
              /\ ~InFlight(s, id)'
              /\ Has(cancelFuncs, id) /\ cancelFuncs[id] # s) =>
                 (Has(cancelFuncs', id) /\ cancelFuncs'[id] = cancelFuncs[id])]_vars

\* C29: once a Decision "block" has been written for id, the entry of id is
\* closed (no cached request, no body buffer), and every later
\* RequestBodyChunk for id is answered with the Decision "allow" without
\* OnRequestBody being invoked.
C29_BlockClosesEntry ==
    /\ \A id \in Ids :
          blockSeen[id] => ~Has(requests, id) /\ ~Has(requestBodies, id)
    /\ \A s \in Sessions :
          (/\ cur[s].Type = MsgTypeRequestBodyChunk
           /\ cur[s].parseOK
           /\ blockSeen[cur[s].RequestID])
              => /\ pc[s] = "write"
                 /\ resp[s].frame = buildAllowDecision(cur[s].RequestID)
                 /\ ~resp[s].obs.cb

\* the ids that have an entry in the registry: cached headers or a buffer
RegistryIds ==
    DOMAIN requests \cup DOMAIN requestBodies \cup DOMAIN responseBodies
      \cup DOMAIN responseEvents

\* C30: handling CancelAll amounts to CancelRequest for every live id: when
\* its handles have been fired and dropped (the cancel map is empty), OnCancel
\* has been invoked for every id that has a registry entry, not only for the
\* ids whose callback was in flight.
C30_CancelAllNotifiesAll ==
    \A s \in Sessions :
        pc[s] = "ca2" =>
            /\ cancelFuncs = EmptyMap
            /\ RegistryIds \subseteq resp[s].cancelled

\* p is an initial part of q
IsPrefix(p, q) == Len(p) <= Len(q) /\ SubSeq(q, 1, Len(p)) = p

\* C37: bytes buffered for an id by RequestBodyChunk frames that arrived
\* before any RequestHeaders for the id are not discarded when the
\* RequestHeaders arrive: the entry of the id still begins with them, so that
\* the body handed to OnRequestBody on the final chunk includes them.
C37_EarlyChunkKept ==
    [][\A id \in Ids :
          (~Has(requests, id) /\ Has(requestBodies, id) /\ Has(requests', id)) =>
              /\ Has(requestBodies', id)
              /\ IsPrefix(requestBodies[id], requestBodies'[id])]_vars

RequestPathTypes ==
    {MsgTypeRequestHeaders, MsgTypeRequestBodyChunk, MsgTypeResponseHeaders,
     MsgTypeResponseBodyChunk}

\* the pump of session s holds a request-path message whose payload did not
\* parse
ParseFailed(s) == cur[s].Type \in RequestPathTypes /\ ~cur[s].parseOK

\* C38: a request-path message whose payload is not valid JSON for its type
\* is answered with a Decision "allow" with request_id = 0 and invokes no
\* policy callback (the handler returns in the step that takes the message),
\* leaves the registry, the cancel map and the metrics counters unchanged, and
\* the session goes on to its next frame once the reply is written (a failed
\* write ends it, as for every reply).
C38_ParseFailureAllowed ==
    [][\A s \in Sessions :
          /\ (pc[s] = "ready" /\ ParseFailed(s)') =>
                /\ pc'[s] = "write"
                /\ resp'[s].frame = buildAllowDecision(0)
                /\ registryVars' = registryVars
                /\ cancelFuncs' = cancelFuncs
                /\ collectorVars' = collectorVars
          /\ (ParseFailed(s) /\ pc'[s] # pc[s]) =>
                /\ pc[s] = "write"
                /\ pc'[s] \in {"ready", "closed"}
                /\ registryVars' = registryVars
                /\ cancelFuncs' = cancelFuncs
                /\ collectorVars' = collectorVars]_vars

\* the allow for a RequestHeaders frame that did not parse is about to be
\* written while an earlier request is cached
C38_Witness ==
    \E s \in Sessions :
        /\ pc[s] = "write"
        /\ ParseFailed(s)
        /\ cur[s].Type = MsgTypeRequestHeaders
        /\ resp[s].frame = buildAllowDecision(0)
        /\ requests # EmptyMap

(***************************************************************************)
(* Claims about the health status.                                         *)
(***************************************************************************)
\* the order unhealthy > degraded > healthy
Severity(st) ==
    CASE st = HealthStateHealthy -> 0
      [] st = HealthStateDegraded -> 1
      [] st = HealthStateUnhealthy -> 2

Worst(S) == CHOOSE w \in S : \A x \in S : Severity(x) <= Severity(w)

\* C11: whatever state a HealthStatus starts in and whatever checks are added
\* to it with WithCheck, its State is the worst of the initial state and the
\* states of all added checks under unhealthy > degraded > healthy; the order
\* in which the checks were added does not matter, only which states they had.
C11_WorstOfChecks ==
    hsState # "none" =>
        hsState = Worst({hsInit} \cup {hsChecks[i] : i \in 1..Len(hsChecks)})

\* a healthy status that got an unhealthy check, then a degraded one, then a
\* healthy one, and is unhealthy
C11_Witness ==
    /\ hsInit = HealthStateHealthy
    /\ hsChecks = <<HealthStateUnhealthy, HealthStateDegraded, HealthStateHealthy>>
    /\ hsState = HealthStateUnhealthy

(***************************************************************************)
(* Claims about the metrics collector.                                     *)
(***************************************************************************)
\* C12: after any sequence of RecordRequest and RecordError calls made one
\* after the other, requests_total = requests_allowed + requests_blocked +
\* requests_errored, in the collector and in every report made from it.
C12_TotalIsSum ==
    /\ requestsTotal = requestsAllowed + requestsBlocked + requestsErrored
    /\ report.made =>
          report.RequestsTotal = report.RequestsAllowed + report.RequestsBlocked
                                   + report.RequestsErrored

\* a report made after an allowed request, a blocked request and an error
C12_Witness ==
    /\ report.made
    /\ report.RequestsAllowed >= 1
    /\ report.RequestsBlocked >= 1
    /\ report.RequestsErrored >= 1

\* C13 as stated: requests_active never goes below zero and never wraps
\* around: no IncrementActive makes it smaller and no DecrementActive makes it
\* larger, and a DecrementActive at 0 leaves it at 0.
C13_NeverWraps ==
    /\ mlast.op = "inc" => U32Less(mlast.before, requestsActive)
    /\ mlast.op = "dec" => ~U32Less(mlast.before, requestsActive)
    /\ mlast.op = "dec" /\ mlast.before = U32Zero => requestsActive = U32Zero

\* C13: a DecrementActive at 0 leaves requests_active at 0 and any other
\* DecrementActive lowers it by one, so it never goes below zero and never
\* wraps downwards; an IncrementActive raises it by one except at 2^32 - 1,
\* where it wraps to 0.
C13_ClampedAtZero ==
    /\ mlast.op = "dec" /\ mlast.before = U32Zero => requestsActive = U32Zero
    /\ mlast.op = "dec" /\ mlast.before # U32Zero =>
          /\ U32Less(requestsActive, mlast.before)
          /\ U32Inc(requestsActive) = mlast.before
    /\ mlast.op = "inc" /\ mlast.before # U32Max =>
          /\ U32Less(mlast.before, requestsActive)
          /\ U32Dec(requestsActive) = mlast.before
    /\ mlast.op = "inc" /\ mlast.before = U32Max => requestsActive = U32Zero

\* a DecrementActive was issued at 0
C13_Witness ==
    /\ mlast.op = "dec"
    /\ mlast.before = U32Zero
    /\ requestsActive = U32Zero

\* the last n elements of a sequence, in order
LastN(q, n) == SubSeq(q, Len(q) - n + 1, Len(q))

\* C33: after any sequence of n RecordRequest calls the latency window holds
\* exactly the min(n, window size) most recently recorded samples in arrival
\* order, so its length never exceeds the window size.
C33_WindowIsMostRecent ==
    /\ Len(latencies) <= LatencyWindow
    /\ latencies = LastN(samples, IF Len(samples) < LatencyWindow
                                  THEN Len(samples)
                                  ELSE LatencyWindow)

\* more samples were recorded than the window keeps, and the oldest one,
\* which differs from the newest, has left the window
C33_Witness ==
    /\ Len(samples) > LatencyWindow
    /\ Len(latencies) = LatencyWindow
    /\ samples[1] # samples[Len(samples)]
    /\ latencies # SubSeq(samples, 1, LatencyWindow)

\* no goroutine is inside handleRequestHeaders
AllIdle == \A g \in Dispatchers : mpc[g] = "idle"

\* C35: when two sessions dispatch RequestHeaders concurrently through the
\* runner's handler no counter update is lost: once the dispatches have
\* completed requests_total has increased by their number and requests_total
\* = requests_allowed + requests_blocked + requests_errored still holds.
C35_NoLostUpdate ==
    AllIdle =>
        /\ requestsTotal = SumOver(dispatched, Dispatchers)
        /\ requestsTotal = requestsAllowed + requestsBlocked + requestsErrored

\* C36: the counters recorded by RequestHeaders dispatch are the ones
\* reported to the proxy: a MetricsResponse made after the handler has
\* dispatched k RequestHeaders events has requests_total = k.
C36_ReportedTotalIsDispatched ==
    mresp.made => mresp.RequestsTotal = mresp.dispatched

(***************************************************************************)
(* Claims about the correlation id projection.                             *)
(***************************************************************************)
\* DJB2 as the specification gives it: h = 5381; for each byte b:
\* h = h * 33 + b, modulo 2^64
DJB2Step(h, b) == U64Carry(<<h[1] * 33 + b, h[2] * 33, h[3] * 33, h[4] * 33>>)

RECURSIVE DJB2(_, _)
DJB2(s, n) == IF n = 0 THEN <<5381, 0, 0, 0>> ELSE DJB2Step(DJB2(s, n - 1), s[n])

\* 7569692753506724397 = 0x690CF3740F9DEA2D
StatedSampleHash == <<59949, 3997, 62324, 26892>>

\* 229481157363696 = 0x0000D0B63EDE07F0
SampleHash == <<2032, 16094, 53430, 0>>

\* C15 as stated: hashString is DJB2 modulo 2^64 of its input bytes and
\* hashString("req-123") = 7569692753506724397.
C15_StatedSample ==
    HashReturned =>
        /\ hout = DJB2(hin, Len(hin))
        /\ hin = SampleCorrelationID => hout = StatedSampleHash

\* C15: hashString is a function of its input bytes equal to DJB2 (h = 5381;
\* for each byte b: h = ((h << 5) + h) + b) computed modulo 2^64, after every
\* iteration and when it returns, and hashString("req-123") = 229481157363696.
C15_DJB2 ==
    /\ hidx > 0 => hout = DJB2(hin, hidx - 1)
    /\ HashReturned /\ hin = SampleCorrelationID => hout = SampleHash

\* hashString has returned for the sample
C15_Witness ==
    /\ HashReturned
    /\ hin = SampleCorrelationID
    /\ hout = SampleHash

(***************************************************************************)
(* Claims about the RPC bridge.                                            *)
(***************************************************************************)
\* C34: the reply a transport puts on the wire for a Decision frame carries
\* the decision value the handler built, on the RPC bridge exactly as on the
\* socket transports: the reply to a non-final body chunk carries a decision
\* of shape {needs_more: true}.
C34_BridgeKeepsDecision ==
    bpc = "sent" =>
        /\ bout.decision = DecisionValue(bin)
        /\ bin.Decision = "needs_more" => bout.decision = NeedsMoreValue

(***************************************************************************)
(* Claims about the runner lifecycle.                                      *)
(***************************************************************************)
\* C14: from the moment drain is triggered (draining = true), no new
\* connection is accepted or dialled and no pump is started for one, also
\* while OnDrain is still executing.
C14_NoConnectionWhileDraining == \A c \in RunnerConns : ~bornDraining[c]

\* C16: in every execution of the runner, OnShutdown is never invoked before
\* OnDrain has been invoked and has returned.
C16_DrainBeforeShutdown ==
    /\ ~shutdownEarly
    /\ onShutdown > 0 => onDrain = "returned"

\* OnShutdown has been invoked, after a drain during which a connection was
\* still being served
C16_Witness ==
    /\ onShutdown = 1
    /\ onDrain = "returned"
    /\ rpc = "returned"
    /\ \E c \in RunnerConns : lpc[c] = "closed" /\ streamClosed[c] = 1

\* C17: for every accepted or dialled connection, OnStreamClosed is invoked
\* exactly once, whatever ends its pump: end of stream, read error, write
\* error, failed handshake, drain or shutdown.
C17_StreamClosedOnce ==
    \A c \in RunnerConns :
        /\ streamClosed[c] <= 1
        /\ lpc[c] = "closed" => streamClosed[c] = 1

C20_ShutdownFollowsDrain == (onDrain # "no") ~> (onShutdown > 0)

\* the pump of connection c is running past its handshake
Serving(c) == lpc[c] \in {"top", "read", "callback", "handle", "write"}

\* C21: when the drain wait has ended and the runner has finished shutting
\* down (OnShutdown invoked, Run returned), no session is still being served:
\* every session that was live when the wait ended, one blocked reading the
\* next frame included, has been abandoned with OnStreamClosed invoked.
C21_LiveSessionsClosedAtShutdown ==
    (rpc = "returned" /\ onShutdown > 0) =>
        \A c \in RunnerConns : ~Serving(c)

\* runReverse is between connection attempts: none was made yet, the last one
\* failed, or the session it established has ended
Reconnecting == transport = "reverse" /\ rpc \in {"rtop", "panicked"}

\* C31: on the reverse-dial transport, whenever a connection attempt fails or
\* an established session ends and no shutdown has been signalled, the runner
\* eventually makes another connection attempt (or shutdown is signalled
\* first), however many attempts were made before; once shutdown has been
\* signalled it makes no further attempt.
C31_ReconnectsUntilShutdown ==
    /\ [][shutdown => attempts' = attempts]_vars
    /\ \A n \in 0..(AttemptsModulus - 1) :
          (Reconnecting /\ ~shutdown /\ attempts = n) ~> (attempts # n \/ shutdown)

\* C39: on the reverse-dial transport the session pump is entered on a
\* connection only after a RegistrationAck with accepted=true was received;
\* after every other outcome of the registration exchange connectReverse has
\* returned an error with the connection closed and the agent has not
\* crashed, so that the reconnect loop continues.
C39_RegistrationFailuresRetried ==
    transport = "reverse" =>
        /\ rpc # "panicked"
        /\ \A c \in RunnerConns : Serving(c) => registration = "accepted"
        /\ registration \notin {"none", "accepted"} =>
              /\ rpc \in {"rtop", "returned"}
              /\ \A c \in RunnerConns : ~Serving(c)

\* C40: after a terminate-family signal is delivered, Run eventually returns
\* (or the process has ended) on every transport, even if a connected proxy
\* neither sends another frame nor closes its connection.
C40_RunReturnsAfterSignal ==
    (sig \in {"draining", "closing", "done"}) ~> (rpc \in {"returned", "panicked"})

\* C32: the three session pumps (local socket, reverse-dial, RPC
\* ProcessStream) are the same state machine: on every transport a pump
\* starts with the handshake and reads its first frame only after it, and at
\* the head of its loop it goes on to read the next frame only if the runner
\* is neither draining nor shut down, and ends otherwise.
C32_PumpsSameMachine ==
    [][\A c \in RunnerConns :
          /\ (~Serving(c) /\ Serving(c)') => lpc[c] = "hs"
          /\ (lpc[c] = "top" /\ lpc'[c] = "read") => ~(draining \/ shutdown)
          /\ (lpc[c] = "top" /\ lpc'[c] = "closed") => (draining \/ shutdown)]_vars
====
